---------------------------- MODULE Spec2Model ----------------------------
(***************************************************************************)
(* Support generation for resin printing: the face classifier and the      *)
(* contact generators of support_utils.py (run_support_pipeline) and the   *)
(* contact / clustering / collision stages of generate_building_print.py.  *)
(*                                                                         *)
(* Fixed point: lengths are in 0.01 mm, face areas in 0.01 mm^2, normal    *)
(* components in 1/100 (a unit normal has length 100); the volume of a     *)
(* boolean intersection is in (0.01 mm)^3.                                 *)
(***************************************************************************)
EXTENDS Integers, Sequences, FiniteSets, TLC

(***************************************************************************)
(* Bounds of the model.                                                    *)
(***************************************************************************)
MaxShapeFaces == 3
MaxFaces == 2

(***************************************************************************)
(* Constants of support_utils.py.                                          *)
(***************************************************************************)
FRAGILE_THRESHOLD == 60
COSMETIC_AREA_MAX == 100
COSMETIC_DEPTH_MAX == 100
OVERHANG_DOT_THRESHOLD == -30
WALL_DOT_THRESHOLD == 70
MODEL_RAISE == 300
TIP_RADIUS == 15
COLUMN_RADIUS == 40
BOTTOM_SUPPORT_SPACING == 500
BOTTOM_SUPPORT_MIN_DEPTH == 300
TIP_HEIGHT == 100
BASE_PAD_HEIGHT == 50
BASE_PAD_RADIUS == 100
RAFT_MARGIN == 200
RAFT_THICKNESS == 150
RAFT_CHAMFER == 40

\* Known printer build volumes (x, y, z).
PRINTER_VOLUMES ==
    [m7_pro |-> <<21800, 12300, 26000>>, m7_max |-> <<29800, 16400, 30000>>]

(***************************************************************************)
(* Constants of generate_building_print.py.  NECK_HEIGHT is a name the     *)
(* script reads from support_utils.py; its value is the one the comment on *)
(* the sanity rule gives: (TIP_RADIUS + NECK_HEIGHT) * 0.95 = 4.18.        *)
(***************************************************************************)
NECK_HEIGHT == 425
EXT_SLAB_DEPTH == 300
EXT_SLAB_MARGIN == 100
THRESH == -50
MIN_OVERHANG_DEPTH == 60
GRID == 800
INTERIOR_EDGE_CLEAR == COLUMN_RADIUS + 30
EXTERIOR_EDGE_CLEAR == COLUMN_RADIUS + 150
NARROW_FACE_THRESH == 200
NARROW_EXT_BIAS == COLUMN_RADIUS + TIP_RADIUS + 10
INWARD_NUDGE == 30
MODEL_REST_GAP == 30

VARIABLES
    \* run_support_pipeline (support_utils.py)
    rpc,                 \* position in run_support_pipeline
    shape,               \* faces of obj.Shape (sequence of face records)
    wall_outward_normal, \* <<x, y, z>>
    window_bounds,       \* [present, x_min, x_max, z_min, z_max]
    mullion_x,           \* [present, x]
    interior_y_side,     \* "none" | "min" | "max"
    classified,          \* face index -> [category, normal, area, bbox]
    lintel_contacts, bottom_contacts, all_contacts,
    \* generate_building_print.py
    pc,                  \* position in the script
    faces,               \* s5.Faces (sequence of face records)
    fidx,                \* index of the next face of the main pass
    panels,              \* _panels: s5.Solids with their bounding boxes
    raw_contacts,        \* <<x, y, z, nx, ny, nz>>
    cells,               \* the dict, in insertion order: [key, val]
    contacts,            \* clustered, then clipped, then nudged contacts
    cidx,                \* index of the next contact of the collision loop
    raft_contacts,       \* <<cx, cy, cz, nx, ny, nz>>
    model_contacts,      \* <<cx, cy, cz, base_z, nx, ny, nz>>
    skipped,
    all_support_shapes,
    clipped_shapes,      \* [shape, cuts]: a support and the boxes cut from it
    clip_count,
    \* outputs of steps 5 and 6 of run_support_pipeline
    support_compound,    \* shapes of the Supports compound
    raft_shape,          \* [st |-> "none"], or [st |-> "built", box]
    \* outputs of the last stages of generate_building_print.py
    raft_pad_positions,  \* <<pad_x, pad_y, cz>>
    raft,                \* [st |-> "none"], or [st |-> "built", box]
    fit,                 \* [st |-> "none"], or what check_build_fit returned
    final,               \* [st |-> "none"], or the compound
                         \* [st |-> "compound", model, supports, raft]
    mesh,                \* TRUE once the STL is written
    \* the FreeCAD document: the names of its objects; shape is the Shape of
    \* the object run_support_pipeline is given
    doc,
    \* one call of a library function of support_utils.py
    call,                \* [fn, ...arguments]; fn = "none" when no call is made
    ret                  \* [st, ...]: "pending", "returned" or "ValueError"

svars == <<rpc, shape, wall_outward_normal, window_bounds, mullion_x,
           interior_y_side, classified, lintel_contacts, bottom_contacts,
           all_contacts>>

gvars == <<pc, faces, fidx, panels, raw_contacts, cells, contacts, cidx,
           raft_contacts, model_contacts, skipped, all_support_shapes>>

sout == <<support_compound, raft_shape>>

gout == <<clipped_shapes, clip_count, raft_pad_positions, raft, fit, final,
          mesh>>

uvars == <<call, ret>>

vars == <<svars, gvars, sout, gout, doc, uvars>>

(***************************************************************************)
(* Arithmetic helpers.                                                     *)
(***************************************************************************)
Abs(a) == IF a < 0 THEN -a ELSE a
Min2(a, b) == IF a < b THEN a ELSE b
Max2(a, b) == IF a > b THEN a ELSE b

\* a / b as a float, to the nearest fixed-point unit (b > 0).
RoundDiv(a, b) == (2 * a + b) \div (2 * b)

\* int(a / b) for a >= 0, b > 0.
IntDiv(a, b) == a \div b

SetMax(S) == CHOOSE m \in S : \A o \in S : o <= m
SetMin(S) == CHOOSE m \in S : \A o \in S : m <= o

\* sorted([a, b, c])
Sorted3(a, b, c) ==
    LET lo == Min2(a, Min2(b, c))
        hi == Max2(a, Max2(b, c))
    IN  <<lo, a + b + c - lo - hi, hi>>


(***************************************************************************)
(* A face of a shape, as the geometry kernel reports it.  ok = FALSE means *)
(* face.normalAt raises; the normal fields are then never read.            *)
(***************************************************************************)
Face(ok, nx, ny, nz, area, minEdge, x0, x1, y0, y1, z0, z1) ==
    [ok |-> ok, nx |-> nx, ny |-> ny, nz |-> nz, area |-> area,
     minEdge |-> minEdge,
     XMin |-> x0, XMax |-> x1, YMin |-> y0, YMax |-> y1,
     ZMin |-> z0, ZMax |-> z1]

XLength(bb) == bb.XMax - bb.XMin
YLength(bb) == bb.YMax - bb.YMin
ZLength(bb) == bb.ZMax - bb.ZMin

\* face.CenterOfMass of a planar rectangular face: the centre of its box.
CenterOfMass(f) ==
    [x |-> (f.XMin + f.XMax) \div 2, y |-> (f.YMin + f.YMax) \div 2,
     z |-> (f.ZMin + f.ZMax) \div 2]


(***************************************************************************)
(* Face classification (support_utils.py).                                 *)
(***************************************************************************)
_is_inside_window(bbox, wb) ==
    /\ bbox.XMin >= wb.x_min /\ bbox.XMax <= wb.x_max
    /\ bbox.ZMin >= wb.z_min /\ bbox.ZMax <= wb.z_max

\* The thin-face outcome shared by the wall-aligned and near-vertical
\* branches: 'fragile' inside a window opening, else 'brick_side'.
ThinSide(bbox, wb) ==
    IF wb.present /\ _is_inside_window(bbox, wb) THEN "fragile"
    ELSE "brick_side"

\* The cosmetic / structural split of a downward-facing face.
OverhangLooseSplit(area, overhang_depth) ==
    IF area < COSMETIC_AREA_MAX /\ overhang_depth < COSMETIC_DEPTH_MAX
    THEN "cosmetic_overhang" ELSE "structural_overhang"

OverhangSplit(area, overhang_depth) ==
    IF area < COSMETIC_AREA_MAX \/ overhang_depth < COSMETIC_DEPTH_MAX
    THEN "cosmetic_overhang" ELSE "structural_overhang"

\* Classification that sends every |nz| < 0.3 face to 'vertical' without
\* the thin-face test.
ClassifyNoThinTest(normal, bbox, area, dims_sorted, won, wb) ==
    LET nz == normal[3]
        dot_wall == normal[1] * won[1] + normal[2] * won[2] + normal[3] * won[3]
    IN  IF Abs(dot_wall) > WALL_DOT_THRESHOLD * 100
        THEN IF dims_sorted[1] < FRAGILE_THRESHOLD THEN ThinSide(bbox, wb)
             ELSE IF dot_wall > 5000 THEN "display" ELSE "interior"
        ELSE IF nz < OVERHANG_DOT_THRESHOLD
        THEN IF wb.present /\ _is_inside_window(bbox, wb)
                /\ dims_sorted[1] < FRAGILE_THRESHOLD
             THEN "fragile"
             ELSE OverhangSplit(area, dims_sorted[2])
        ELSE "vertical"

\* Classification that looks for a downward-facing normal before it looks
\* at the alignment with the wall.
ClassifyOverhangFirst(normal, bbox, area, dims_sorted, won, wb) ==
    LET nz == normal[3]
        dot_wall == normal[1] * won[1] + normal[2] * won[2] + normal[3] * won[3]
    IN  IF nz < OVERHANG_DOT_THRESHOLD
        THEN IF wb.present /\ _is_inside_window(bbox, wb)
                /\ dims_sorted[1] < FRAGILE_THRESHOLD
             THEN "fragile"
             ELSE OverhangSplit(area, dims_sorted[2])
        ELSE IF Abs(dot_wall) > WALL_DOT_THRESHOLD * 100
        THEN IF dims_sorted[1] < FRAGILE_THRESHOLD THEN ThinSide(bbox, wb)
             ELSE IF dot_wall > 5000 THEN "display" ELSE "interior"
        ELSE IF Abs(nz) < 30
        THEN IF dims_sorted[1] < FRAGILE_THRESHOLD THEN ThinSide(bbox, wb)
             ELSE "vertical"
        ELSE "vertical"

_classify_single_face(normal, bbox, area, dims_sorted, won, wb) ==
    LET nz == normal[3]
        dot_wall == normal[1] * won[1] + normal[2] * won[2] + normal[3] * won[3]
    IN  IF Abs(dot_wall) > WALL_DOT_THRESHOLD * 100
        THEN IF dims_sorted[1] < FRAGILE_THRESHOLD THEN ThinSide(bbox, wb)
             ELSE IF dot_wall > 5000 THEN "display" ELSE "interior"
        ELSE IF nz < OVERHANG_DOT_THRESHOLD
        THEN IF wb.present /\ _is_inside_window(bbox, wb)
                /\ dims_sorted[1] < FRAGILE_THRESHOLD
             THEN "fragile"
             ELSE OverhangSplit(area, dims_sorted[2])
        ELSE IF Abs(nz) < 30
        THEN IF dims_sorted[1] < FRAGILE_THRESHOLD THEN ThinSide(bbox, wb)
             ELSE "vertical"
        ELSE "vertical"

\* The normal classify_faces uses: normalAt, or Vector(0,0,0) when it raises.
FaceNormal(f) == IF f.ok THEN <<f.nx, f.ny, f.nz>> ELSE <<0, 0, 0>>

BBoxOf(f) ==
    [XMin |-> f.XMin, XMax |-> f.XMax, YMin |-> f.YMin, YMax |-> f.YMax,
     ZMin |-> f.ZMin, ZMax |-> f.ZMax]

classify_faces(shape_, won, wb) ==
    [i \in 1..Len(shape_) |->
        LET f == shape_[i]
            n == FaceNormal(f)
            dims == Sorted3(XLength(f), YLength(f), ZLength(f))
        IN  [category |-> _classify_single_face(n, BBoxOf(f), f.area, dims,
                                                won, wb),
             normal |-> n, area |-> f.area, bbox |-> BBoxOf(f)]]

\* shape.translated(Vector(0, 0, amount)) on the faces of the shape.
raise_model(shape_, amount) ==
    [i \in 1..Len(shape_) |->
        [shape_[i] EXCEPT !.ZMin = @ + amount, !.ZMax = @ + amount]]

(***************************************************************************)
(* Contact generation (support_utils.py).  A contact is the (x, y, z)      *)
(* tuple of the code plus the index of the face it was generated from      *)
(* (face: bookkeeping of the model, never read by the modelled code).      *)
(***************************************************************************)
Contact3(x, y, z, face) == [x |-> x, y |-> y, z |-> z, face |-> face]
Pos(c) == <<c.x, c.y, c.z>>

\* [f(x, y) for x in xs for y in ys]
RECURSIVE Flatten(_)
Flatten(ss) == IF ss = <<>> THEN <<>> ELSE Head(ss) \o Flatten(Tail(ss))

\* The faces a generator may place contacts on.
AnyOverhangSelected(classified_, idx) ==
    classified_[idx].category \in {"structural_overhang", "cosmetic_overhang"}

StructuralSelected(classified_, idx) ==
    classified_[idx].category = "structural_overhang"

\* lintel_z / bottom_z: linear from ZMax at YMin down to ZMin at YMax.
z_from_top(bb, y) ==
    IF bb.YMax = bb.YMin THEN bb.ZMax
    ELSE bb.ZMax - RoundDiv((y - bb.YMin) * (bb.ZMax - bb.ZMin),
                            bb.YMax - bb.YMin)

\* z_at_y: linear from ZMin at YMin up to ZMax at YMax.
z_at_y(bb, y) ==
    IF bb.YMax = bb.YMin THEN bb.ZMin
    ELSE bb.ZMin + RoundDiv((y - bb.YMin) * (bb.ZMax - bb.ZMin),
                            bb.YMax - bb.YMin)

\* bb.XMin + x_margin + t * (bb.XLength - 2 * x_margin), t = (i + 0.5) / n
GridX(bb, i, n) ==
    bb.XMin + 150 + RoundDiv((2 * i + 1) * (XLength(bb) - 300), 2 * n)

x_count(bb) == Max2(2, IntDiv(XLength(bb), BOTTOM_SUPPORT_SPACING) + 1)

LessEq(a, b) == a <= b

generate_lintel_supports(classified_, wb, mx) ==
    LET cand == {i \in DOMAIN classified_ :
                    /\ StructuralSelected(classified_, i)
                    /\ classified_[i].bbox.XMin >= wb.x_min - 100
                    /\ classified_[i].bbox.XMax <= wb.x_max + 100
                    /\ classified_[i].bbox.ZMin > wb.z_min}
    IN  IF cand = {} THEN <<>>
        ELSE
        LET amax == SetMax({classified_[i].area : i \in cand})
            lintel_idx == SetMin({i \in cand : classified_[i].area = amax})
            bb == classified_[lintel_idx].bbox
            jambs == <<bb.XMin + 50, bb.XMax - 50>>
            xs == SortSeq(IF mx.present
                          THEN jambs \o <<mx.x - 150, mx.x + 150>>
                          ELSE jambs, LessEq)
            ys == <<bb.YMin + 50, bb.YMax - 50>>
        IN  Flatten([i \in 1..Len(xs) |->
                [j \in 1..Len(ys) |->
                    Contact3(xs[i], ys[j], z_from_top(bb, ys[j]), lintel_idx)]])

generate_bottom_supports(classified_, raise_amount, side) ==
    LET cand == {i \in DOMAIN classified_ :
                    /\ StructuralSelected(classified_, i)
                    /\ classified_[i].bbox.ZMin < raise_amount + 200
                    /\ classified_[i].area > 1000}
    IN  IF cand = {} THEN <<>>
        ELSE
        LET zmin == SetMin({classified_[i].bbox.ZMin : i \in cand})
            bottom_idx == SetMin({i \in cand : classified_[i].bbox.ZMin = zmin})
            bb == classified_[bottom_idx].bbox
            n == x_count(bb)
            xs == [i \in 1..n |-> GridX(bb, i - 1, n)]
            ys == IF side = "max" THEN <<bb.YMax - 50>>
                  ELSE IF side = "min" THEN <<bb.YMin + 50>>
                  ELSE IF YLength(bb) > BOTTOM_SUPPORT_MIN_DEPTH
                  THEN <<bb.YMin + 50, bb.YMax - 50>>
                  ELSE <<RoundDiv(bb.YMin + bb.YMax, 2)>>
        IN  Flatten([i \in 1..Len(xs) |->
                [j \in 1..Len(ys) |->
                    Contact3(xs[i], ys[j], z_from_top(bb, ys[j]), bottom_idx)]])

\* The contacts generate_all_overhang_supports places on one face.
OverhangFaceContacts(classified_, idx, side, area_threshold2) ==
    LET bb == classified_[idx].bbox
        y_int == IF side = "min" THEN bb.YMin + 50 ELSE bb.YMax - 50
        z == z_at_y(bb, y_int)
    IN  IF 2 * classified_[idx].area >= area_threshold2
        THEN [i \in 1..x_count(bb) |->
                 Contact3(GridX(bb, i - 1, x_count(bb)), y_int, z, idx)]
        ELSE <<Contact3(bb.XMin + 50, y_int, z, idx),
               Contact3(bb.XMax - 50, y_int, z, idx)>>

generate_all_overhang_supports(classified_, side) ==
    LET overhangs == {i \in DOMAIN classified_ :
                         StructuralSelected(classified_, i)}
    IN  IF overhangs = {} THEN <<>>
        ELSE
        LET amax == SetMax({classified_[i].area : i \in overhangs})
        IN  Flatten([i \in 1..Len(classified_) |->
                IF i \in overhangs
                THEN OverhangFaceContacts(classified_, i, side, amax)
                ELSE <<>>])

\* existing = set(all_contacts); [c for c in overhang if c not in existing]
new_overhang(all_, overhang) ==
    SelectSeq(overhang, LAMBDA c : Pos(c) \notin {Pos(all_[i]) : i \in 1..Len(all_)})

(***************************************************************************)
(* Inputs of run_support_pipeline: the faces a shape may have (before the  *)
(* raise), the wall normal, the window opening, the mullion and the side.  *)
(***************************************************************************)
SFaces ==
    << Face(TRUE, 0, -31, -95, 6300, 300, 0, 2000, 0, 300, 0, 95),
       Face(TRUE, 0, -31, -95, 3150, 300, 500, 1500, 0, 300, 2200, 2295),
       Face(TRUE, 0, -31, -95, 840, 40, 0, 2000, 0, 40, 1000, 1013),
       Face(TRUE, 0, -31, -95, 32, 40, 0, 80, 0, 40, 1000, 1013),
       Face(TRUE, 0, -31, -95, 90, 20, 0, 300, 0, 100, 1000, 1030),
       Face(TRUE, 0, -95, 31, 60000, 930, 0, 2000, 0, 930, 0, 2850),
       Face(TRUE, 0, 95, -31, 60000, 930, 0, 2000, 250, 1180, 0, 2850),
       Face(FALSE, 0, 0, 0, 0, 0, 900, 950, 0, 300, 1200, 1200),
       Face(FALSE, 0, 0, 0, 500, 100, 0, 100, 0, 100, 0, 100),
       Face(TRUE, 80, 0, -60, 300, 150, 0, 90, 0, 200, 0, 120),
       Face(TRUE, 0, 31, 95, 6300, 300, 0, 2000, 600, 900, 2850, 2945),
       Face(TRUE, 100, 0, 0, 2400, 300, 1000, 1000, 0, 300, 1200, 2000) >>

\* A shape: up to MaxShapeFaces distinct faces, in index order.
ShapeSet ==
    {[i \in 1..Len(ix) |-> SFaces[ix[i]]] :
        ix \in {s \in UNION {[1..n -> 1..Len(SFaces)] : n \in 1..MaxShapeFaces} :
                   \A i \in 1..(Len(s) - 1) : s[i] < s[i + 1]}}

NoWindow == [present |-> FALSE, x_min |-> 0, x_max |-> 0, z_min |-> 0, z_max |-> 0]
TheWindow == [present |-> TRUE, x_min |-> 500, x_max |-> 1500,
              z_min |-> 1000, z_max |-> 2500]
NoMullion == [present |-> FALSE, x |-> 0]
TheMullion == [present |-> TRUE, x |-> 1000]

(***************************************************************************)
(* run_support_pipeline, one action per numbered step.                     *)
(***************************************************************************)
\* The last stages of generate_building_print.py have not run.
GOutIdle ==
    /\ clipped_shapes = <<>> /\ clip_count = 0
    /\ raft_pad_positions = <<>> /\ raft = [st |-> "none"]
    /\ fit = [st |-> "none"] /\ final = [st |-> "none"] /\ mesh = FALSE

\* generate_building_print.py is not running.
GIdle ==
    /\ pc = "idle" /\ faces = <<>> /\ fidx = 1 /\ panels = <<>>
    /\ raw_contacts = <<>> /\ cells = <<>> /\ contacts = <<>> /\ cidx = 1
    /\ raft_contacts = <<>> /\ model_contacts = <<>> /\ skipped = 0
    /\ all_support_shapes = <<>>
    /\ GOutIdle

\* No library function is being called on its own.
UIdle == call = [fn |-> "none"] /\ ret = [st |-> "none"]

\* The object_name argument of run_support_pipeline.
object_name == "Model"

\* doc.getObject(name) is not None
FindsAnything(doc_, name) == TRUE
HasObject(doc_, name) == name \in doc_

SInit ==
    /\ rpc = "raise"
    /\ shape \in ShapeSet
    /\ wall_outward_normal \in {<<0, -95, 31>>, <<0, 95, -31>>}
    /\ \E w \in {<<NoWindow, NoMullion>>, <<TheWindow, NoMullion>>,
                 <<TheWindow, TheMullion>>} :
           window_bounds = w[1] /\ mullion_x = w[2]
    /\ interior_y_side \in {"none", "min", "max"}
    /\ classified = <<>>
    /\ lintel_contacts = <<>>
    /\ bottom_contacts = <<>>
    /\ all_contacts = <<>>
    /\ support_compound = <<>> /\ raft_shape = [st |-> "none"]
    /\ doc \in {{object_name, "Sketch"}, {"Sketch"}}
    /\ GIdle /\ UIdle

\* obj = doc.getObject(object_name); raise ValueError if obj is None;
\* 1. raised_shape = raise_model(obj.Shape, raise_amount); obj.Shape = raised_shape
Raise ==
    /\ rpc = "raise"
    /\ IF ~HasObject(doc, object_name)
       THEN rpc' = "ValueError" /\ shape' = shape
       ELSE rpc' = "classify" /\ shape' = raise_model(shape, MODEL_RAISE)
    /\ UNCHANGED <<wall_outward_normal, window_bounds, mullion_x,
                   interior_y_side, classified, lintel_contacts,
                   bottom_contacts, all_contacts, gvars,
                   sout, gout, doc, uvars>>

\* 2. classified = classify_faces(raised_shape, wall_outward_normal, window_bounds)
Classify ==
    /\ rpc = "classify"
    /\ classified' = classify_faces(shape, wall_outward_normal, window_bounds)
    /\ rpc' = "lintel"
    /\ UNCHANGED <<shape, wall_outward_normal, window_bounds, mullion_x,
                   interior_y_side, lintel_contacts, bottom_contacts,
                   all_contacts, gvars,
                   sout, gout, doc, uvars>>

\* 3. lintel contacts, only with window bounds
Lintel ==
    /\ rpc = "lintel"
    /\ lintel_contacts' = IF window_bounds.present
                          THEN generate_lintel_supports(classified,
                                   window_bounds, mullion_x)
                          ELSE <<>>
    /\ all_contacts' = all_contacts \o lintel_contacts'
    /\ rpc' = "bottom"
    /\ UNCHANGED <<shape, wall_outward_normal, window_bounds, mullion_x,
                   interior_y_side, classified, bottom_contacts, gvars,
                   sout, gout, doc, uvars>>

Bottom ==
    /\ rpc = "bottom"
    /\ bottom_contacts' = generate_bottom_supports(classified, MODEL_RAISE,
                                                   interior_y_side)
    /\ all_contacts' = all_contacts \o bottom_contacts'
    /\ rpc' = "overhang"
    /\ UNCHANGED <<shape, wall_outward_normal, window_bounds, mullion_x,
                   interior_y_side, classified, lintel_contacts, gvars,
                   sout, gout, doc, uvars>>

\* 3b. overhang contacts, deduplicated against the contacts so far
Overhang ==
    /\ rpc = "overhang"
    /\ all_contacts' = all_contacts \o
           new_overhang(all_contacts,
               generate_all_overhang_supports(classified,
                   IF interior_y_side = "none" THEN "min" ELSE interior_y_side))
    /\ rpc' = "build"
    /\ UNCHANGED <<shape, wall_outward_normal, window_bounds, mullion_x,
                   interior_y_side, classified, lintel_contacts,
                   bottom_contacts, gvars,
                   sout, gout, doc, uvars>>


(***************************************************************************)
(* Properties of the classifier and of the contact generators              *)
(* (specification SpecSupport).                                            *)
(***************************************************************************)
DimsOf(i) == Sorted3(XLength(shape[i]), YLength(shape[i]), ZLength(shape[i]))
DotWall(i) ==
    LET n == FaceNormal(shape[i])
    IN  n[1] * wall_outward_normal[1] + n[2] * wall_outward_normal[2]
          + n[3] * wall_outward_normal[3]
WallAligned(i) == Abs(DotWall(i)) > WALL_DOT_THRESHOLD * 100
InWindow(i) == window_bounds.present /\ _is_inside_window(BBoxOf(shape[i]), window_bounds)
\* A face that reaches the cosmetic / structural split.
PlainOverhang(i) ==
    /\ shape[i].ok
    /\ ~WallAligned(i)
    /\ shape[i].nz < OVERHANG_DOT_THRESHOLD
    /\ ~(InWindow(i) /\ DimsOf(i)[1] < FRAGILE_THRESHOLD)
IsClassified == rpc \notin {"raise", "classify", "ValueError"}

\* C6 (as stated): an overhang face is cosmetic_overhang only when BOTH its
\* area and its depth are below their maxima; if either is at or above its
\* threshold the face is structural_overhang.
C6_BothSmallOnly ==
    IsClassified =>
        \A i \in DOMAIN classified :
            PlainOverhang(i) =>
                classified[i].category =
                    IF shape[i].area < COSMETIC_AREA_MAX
                       /\ DimsOf(i)[2] < COSMETIC_DEPTH_MAX
                    THEN "cosmetic_overhang" ELSE "structural_overhang"

\* C6 (amended): an overhang face is cosmetic_overhang when its area is
\* below COSMETIC_AREA_MAX or its depth is below COSMETIC_DEPTH_MAX, and
\* structural_overhang only when both are at or above their thresholds.
C6_EitherSmallCosmetic ==
    IsClassified =>
        \A i \in DOMAIN classified :
            PlainOverhang(i) =>
                /\ classified[i].category \in
                       {"cosmetic_overhang", "structural_overhang"}
                /\ classified[i].category = "structural_overhang" <=>
                       (shape[i].area >= COSMETIC_AREA_MAX
                        /\ DimsOf(i)[2] >= COSMETIC_DEPTH_MAX)

\* A large but shallow overhang face, and a deep face of small area, have
\* both been classified cosmetic, next to a structural one.
C6_Witness ==
    /\ IsClassified
    /\ \E i \in DOMAIN classified :
           /\ PlainOverhang(i)
           /\ shape[i].area >= COSMETIC_AREA_MAX
           /\ DimsOf(i)[2] < COSMETIC_DEPTH_MAX
           /\ classified[i].category = "cosmetic_overhang"
    /\ \E i \in DOMAIN classified :
           PlainOverhang(i) /\ classified[i].category = "structural_overhang"

\* C7 (as stated): a face whose normal cannot be computed gets the zero
\* vector and is classified 'vertical' whatever its dimensions, area, wall
\* normal and window bounds are.
C7_DegenerateVertical ==
    IsClassified =>
        /\ DOMAIN classified = 1..Len(shape)
        /\ \A i \in DOMAIN classified :
               ~shape[i].ok =>
                   /\ classified[i].normal = <<0, 0, 0>>
                   /\ classified[i].category = "vertical"

\* C7 (amended): a face whose normal cannot be computed gets the zero
\* vector, classification never fails, and the face is classified
\* 'vertical' unless its thinnest bounding dimension is below
\* FRAGILE_THRESHOLD; a thin one is 'fragile' when it lies inside the window
\* opening and 'brick_side' otherwise.
C7_DegenerateVerticalOrThin ==
    IsClassified =>
        /\ DOMAIN classified = 1..Len(shape)
        /\ \A i \in DOMAIN classified :
               ~shape[i].ok =>
                   /\ classified[i].normal = <<0, 0, 0>>
                   /\ classified[i].category =
                          IF DimsOf(i)[1] >= FRAGILE_THRESHOLD THEN "vertical"
                          ELSE IF InWindow(i) THEN "fragile"
                          ELSE "brick_side"

\* A thick degenerate face classified vertical beside a thin one that is not.
C7_Witness ==
    /\ IsClassified
    /\ \E i \in DOMAIN classified :
           ~shape[i].ok /\ classified[i].category = "vertical"
    /\ \E i \in DOMAIN classified :
           ~shape[i].ok /\ classified[i].category = "brick_side"

\* C8: every contact of run_support_pipeline (lintel, bottom and overhang)
\* was generated from a face classified structural_overhang.
C8_OnlyStructuralFaces ==
    \A s \in {lintel_contacts, bottom_contacts, all_contacts} :
        \A k \in 1..Len(s) :
            /\ s[k].face \in DOMAIN classified
            /\ classified[s[k].face].category = "structural_overhang"

\* All three generators have contributed while the shape also holds an
\* overhang face that is only cosmetic.
C8_Witness ==
    /\ rpc = "build"
    /\ lintel_contacts # <<>>
    /\ bottom_contacts # <<>>
    /\ Len(all_contacts) > Len(lintel_contacts) + Len(bottom_contacts)
    /\ \E i \in DOMAIN classified : classified[i].category = "cosmetic_overhang"

\* C9: every generated contact lies inside the XY bounding rectangle of the
\* face it was generated from, with z inside that face's [ZMin, ZMax].
C9_ContactOnFace ==
    \A k \in 1..Len(all_contacts) :
        LET c == all_contacts[k]
            f == shape[c.face]
        IN  /\ f.XMin <= c.x /\ c.x <= f.XMax
            /\ f.YMin <= c.y /\ c.y <= f.YMax
            /\ f.ZMin <= c.z /\ c.z <= f.ZMax

(***************************************************************************)
(* generate_building_print.py: raw contacts of one face.                   *)
(***************************************************************************)
\* model_bb = s5.BoundBox: the translation puts XMin and YMin at 0 and ZMin
\* at MODEL_RAISE.
ModelBB == [XMin |-> 0, XMax |-> 2400, YMin |-> 0, YMax |-> 1600]
center_x == (ModelBB.XMin + ModelBB.XMax) \div 2
center_y == (ModelBB.YMin + ModelBB.YMax) \div 2

\* a / b as a float to the nearest unit, b of either sign.
DivR(a, b) == IF b > 0 THEN RoundDiv(a, b) ELSE RoundDiv(-a, -b)

Clamp(lo, hi, v) == Max2(lo, Min2(hi, v))

\* list(dict.fromkeys(s)): the first occurrence of every value, in order.
RECURSIVE DedupeFrom(_, _)
DedupeFrom(s, i) ==
    IF i > Len(s) THEN <<>>
    ELSE (IF \E j \in 1..(i - 1) : s[j] = s[i] THEN <<>> ELSE <<s[i]>>)
         \o DedupeFrom(s, i + 1)
Dedupe(s) == DedupeFrom(s, 1)

\* [lo + GRID/2 + i*GRID for i in range(int(length / GRID) + 1)]
GridPoints(lo, length) ==
    [i \in 1..(IntDiv(length, GRID) + 1) |-> lo + GRID \div 2 + (i - 1) * GRID]

\* The X position of a narrow-in-X face, biased toward the interior.
NarrowX(fbb, com) ==
    IF com.x > center_x THEN <<fbb.XMax - NARROW_EXT_BIAS>>
    ELSE <<fbb.XMin + NARROW_EXT_BIAS>>

\* The Y position of a narrow-in-Y face, biased toward the interior.
NarrowY(fbb, com) ==
    IF com.y > center_y THEN <<fbb.YMax - NARROW_EXT_BIAS>>
    ELSE <<fbb.YMin + NARROW_EXT_BIAS>>

\* Y positions with asymmetric clearance (the same code in both branches).
YPositions(fbb, com) ==
    LET ext_at_ymax == com.y > center_y
        safe_y_min == IF ext_at_ymax THEN fbb.YMin + INTERIOR_EDGE_CLEAR
                      ELSE fbb.YMin + EXTERIOR_EDGE_CLEAR
        safe_y_max == IF ext_at_ymax THEN fbb.YMax - EXTERIOR_EDGE_CLEAR
                      ELSE fbb.YMax - INTERIOR_EDGE_CLEAR
    IN  IF safe_y_min > safe_y_max
        THEN IF ext_at_ymax THEN <<fbb.YMin + INTERIOR_EDGE_CLEAR>>
             ELSE <<fbb.YMax - INTERIOR_EDGE_CLEAR>>
        ELSE IF YLength(fbb) < GRID
        THEN <<Clamp(safe_y_min, safe_y_max, com.y)>>
        ELSE LET raw_ys == GridPoints(fbb.YMin, YLength(fbb))
             IN  Dedupe([i \in 1..Len(raw_ys) |->
                            Clamp(safe_y_min, safe_y_max, raw_ys[i])])

\* X positions of a face that is not narrow in X.
XPositions(fbb, com) ==
    IF XLength(fbb) < GRID THEN <<com.x>>
    ELSE GridPoints(fbb.XMin, XLength(fbb))

\* Z from the face plane equation, clamped to MODEL_RAISE + 0.1.
PlaneZUnclamped(f, com, x, y) ==
    com.z - DivR(f.nx * (x - com.x), f.nz) - DivR(f.ny * (y - com.y), f.nz)

PlaneZNoClamp(f, com, x, y) == PlaneZUnclamped(f, com, x, y)
PlaneZ(f, com, x, y) ==
    Max2(PlaneZUnclamped(f, com, x, y), MODEL_RAISE + 10)

_collect_contacts(f) ==
    IF f.area < 50 \/ ~f.ok THEN <<>>
    ELSE IF Abs(f.nz) < 5 \/ f.minEdge < MIN_OVERHANG_DEPTH THEN <<>>
    ELSE
    LET com == CenterOfMass(f)
        fbb == BBoxOf(f)
        narrow_in_x == XLength(fbb) < NARROW_FACE_THRESH
                       /\ YLength(fbb) > NARROW_FACE_THRESH
        narrow_in_y == YLength(fbb) < NARROW_FACE_THRESH
                       /\ XLength(fbb) > NARROW_FACE_THRESH
        xs == IF narrow_in_x THEN NarrowX(fbb, com) ELSE XPositions(fbb, com)
        ys == IF narrow_in_x THEN YPositions(fbb, com)
              ELSE IF narrow_in_y THEN NarrowY(fbb, com)
              ELSE YPositions(fbb, com)
        grid == Flatten([i \in 1..Len(xs) |->
                    [j \in 1..Len(ys) |-> <<xs[i], ys[j]>>]])
        kept == SelectSeq(grid, LAMBDA q :
                    /\ fbb.XMin - 50 <= q[1] /\ q[1] <= fbb.XMax + 50
                    /\ fbb.YMin - 50 <= q[2] /\ q[2] <= fbb.YMax + 50)
    IN  [k \in 1..Len(kept) |->
            <<kept[k][1], kept[k][2], PlaneZ(f, com, kept[k][1], kept[k][2]),
              f.nx, f.ny, f.nz>>]

\* The main pass keeps a face when its normal exists and n.z <= THRESH.
SelectsAnyNormal(f) == f.ok
MainPassSelects(f) == f.ok /\ ~(f.nz > THRESH)

(***************************************************************************)
(* Clustering, clip and inward nudge.                                      *)
(***************************************************************************)
\* Python round(x / g): to the nearest integer, ties to the even one.
PyRound(x, g) ==
    LET q == x \div g
        r == x - q * g
    IN  IF 2 * r < g THEN q
        ELSE IF 2 * r > g THEN q + 1
        ELSE IF q % 2 = 0 THEN q ELSE q + 1

CellKey(c) == <<PyRound(c[1], GRID) * GRID, PyRound(c[2], GRID) * GRID>>

KeyIndex(cells_, key) ==
    IF \E i \in 1..Len(cells_) : cells_[i].key = key
    THEN CHOOSE i \in 1..Len(cells_) : cells_[i].key = key
    ELSE 0

\* The contact a cell stores: the original tuple.
StoreContact(key, c) == c

\* Whether a raw contact replaces the one its cell holds.
ReplacesOnTie(c, held) == c[3] <= held[3]
ReplacesHigher(c, held) == c[3] > held[3]
Replaces(c, held) == c[3] < held[3]

\* if key not in cells or z < cells[key][2]: cells[key] = (x, y, z, nx, ny, nz)
ClusterStep(cells_, c) ==
    LET key == CellKey(c)
        i == KeyIndex(cells_, key)
    IN  IF i = 0 THEN Append(cells_, [key |-> key, val |-> StoreContact(key, c)])
        ELSE IF Replaces(c, cells_[i].val)
        THEN [cells_ EXCEPT ![i] = [key |-> key, val |-> StoreContact(key, c)]]
        ELSE cells_

RECURSIVE ClusterFrom(_, _, _)
ClusterFrom(raw, i, cells_) ==
    IF i > Len(raw) THEN cells_
    ELSE ClusterFrom(raw, i + 1, ClusterStep(cells_, raw[i]))

\* Clip to the model bounding box.
NoClip(c) == c
ClipContact(c) ==
    <<Clamp(ModelBB.XMin, ModelBB.XMax, c[1]),
      Clamp(ModelBB.YMin, ModelBB.YMax, c[2]), c[3], c[4], c[5], c[6]>>

\* math.sqrt, to the unit below: the r in lo..hi with r * r <= n < (r + 1)^2.
RECURSIVE IsqrtIn(_, _, _)
IsqrtIn(n, lo, hi) ==
    IF lo >= hi THEN lo
    ELSE LET mid == (lo + hi + 1) \div 2
         IN  IF mid * mid <= n THEN IsqrtIn(n, mid, hi)
             ELSE IsqrtIn(n, lo, mid - 1)

Isqrt(n) == IsqrtIn(n, 0, 3000)

\* Nudge toward the model centre; d > 0.01 is d > 1 unit.
NudgeOutward(c) ==
    LET dx == c[1] - center_x
        dy == c[2] - center_y
        d2 == dx * dx + dy * dy
    IN  IF d2 > 1
        THEN <<c[1] + DivR(INWARD_NUDGE * dx, Isqrt(d2)),
               c[2] + DivR(INWARD_NUDGE * dy, Isqrt(d2)),
               c[3], c[4], c[5], c[6]>>
        ELSE c
NudgeContact(c) ==
    LET dx == c[1] - center_x
        dy == c[2] - center_y
        d2 == dx * dx + dy * dy
    IN  IF d2 > 1
        THEN <<c[1] - DivR(INWARD_NUDGE * dx, Isqrt(d2)),
               c[2] - DivR(INWARD_NUDGE * dy, Isqrt(d2)),
               c[3], c[4], c[5], c[6]>>
        ELSE c

(***************************************************************************)
(* Collision check.  A panel is a solid box; distRaises / commonRaises say *)
(* that the kernel raises on distToShape / common for this panel.          *)
(***************************************************************************)
Panel(x0, x1, y0, y1, z0, z1, dr, cr) ==
    [XMin |-> x0, XMax |-> x1, YMin |-> y0, YMax |-> y1, ZMin |-> z0,
     ZMax |-> z1, distRaises |-> dr, commonRaises |-> cr]

\* Square of the distance from the vertical line at (cx, cy) to the box
\* (the line lies inside the Z extent of the box).
DistSq(p, cx, cy) ==
    LET dx == Max2(0, Max2(p.XMin - cx, cx - p.XMax))
        dy == Max2(0, Max2(p.YMin - cy, cy - p.YMax))
    IN  dx * dx + dy * dy

\* Area of the box footprint inside the circle of radius r at (cx, cy):
\* pi/4 of the part of the circle's bounding square the footprint covers,
\* exact when the footprint covers the circle.
CrossArea(p, cx, cy, r) ==
    IF DistSq(p, cx, cy) >= r * r THEN 0
    ELSE LET w == Min2(p.XMax, cx + r) - Max2(p.XMin, cx - r)
             h == Min2(p.YMax, cy + r) - Max2(p.YMin, cy - r)
         IN  (785 * Max2(0, w) * Max2(0, h)) \div 1000

\* _panels[i].common(col): Volume and BoundBox.ZMax of the intersection
\* with the cylinder of radius r from col_z0 to col_z1.
Common(p, cx, cy, r, col_z0, col_z1) ==
    LET lo == Max2(p.ZMin, col_z0)
        hi == Min2(p.ZMax, col_z1)
    IN  [Volume |-> CrossArea(p, cx, cy, r) * Max2(0, hi - lo), ZMax |-> hi]

\* The pre-filters of one panel: bounding box, check region, line length,
\* distance query, column length.
PanelExamined(p, cx, cy, cz, col_radius) ==
    LET margin == col_radius + 50
        line_z1 == Min2(cz - 300, p.ZMax)
        line_z0 == Max2(10, p.ZMin)
        col_z0 == Max2(0, p.ZMin - 100)
        col_z1 == Min2(cz - 300, p.ZMax + 100)
    IN  /\ ~(cx + margin < p.XMin \/ cx - margin > p.XMax
             \/ cy + margin < p.YMin \/ cy - margin > p.YMax)
        /\ ~(p.ZMin > cz - 300 \/ p.ZMax < 10)
        /\ ~(line_z1 <= line_z0 + 10)
        /\ ~p.distRaises
        /\ ~(DistSq(p, cx, cy) > (col_radius + 10) * (col_radius + 10))
        /\ ~(col_z1 <= col_z0 + 50)
        /\ ~p.commonRaises

\* The intersection the loop computes for an examined panel.
PanelCommon(p, cx, cy, cz, col_radius) ==
    Common(p, cx, cy, col_radius, Max2(0, p.ZMin - 100),
           Min2(cz - 300, p.ZMax + 100))

\* max_z_hit = max(max_z_hit, intersection.BoundBox.ZMax)
LastHit(max_z_hit, zmax) == zmax
UpdateMax(max_z_hit, zmax) == Max2(max_z_hit, zmax)

\* distToShape or common raises for this panel on the column of the contact:
\* the bounding-box, check-region and line-length filters let the panel
\* through and the kernel fails on the distance query, or the distance and
\* column-length filters let it through too and the kernel fails on common.
Raises(p, cx, cy, cz, col_radius) ==
    LET margin == col_radius + 50
        line_z1 == Min2(cz - 300, p.ZMax)
        line_z0 == Max2(10, p.ZMin)
        col_z0 == Max2(0, p.ZMin - 100)
        col_z1 == Min2(cz - 300, p.ZMax + 100)
    IN  /\ ~(cx + margin < p.XMin \/ cx - margin > p.XMax
             \/ cy + margin < p.YMin \/ cy - margin > p.YMax)
        /\ ~(p.ZMin > cz - 300 \/ p.ZMax < 10)
        /\ ~(line_z1 <= line_z0 + 10)
        /\ \/ p.distRaises
           \/ /\ ~(DistSq(p, cx, cy) > (col_radius + 10) * (col_radius + 10))
              /\ ~(col_z1 <= col_z0 + 50)
              /\ p.commonRaises

\* A panel loop wrapped whole in one try: a failure ends it with no hit.
PanelStepFailureResets(p, cx, cy, cz, col_radius, max_z_hit) ==
    IF Raises(p, cx, cy, cz, col_radius) THEN -100
    ELSE IF PanelExamined(p, cx, cy, cz, col_radius)
            /\ PanelCommon(p, cx, cy, cz, col_radius).Volume > 1000
    THEN UpdateMax(max_z_hit, PanelCommon(p, cx, cy, cz, col_radius).ZMax)
    ELSE max_z_hit

\* One iteration of the panel loop.
PanelStep(p, cx, cy, cz, col_radius, max_z_hit) ==
    IF PanelExamined(p, cx, cy, cz, col_radius)
       /\ PanelCommon(p, cx, cy, cz, col_radius).Volume > 1000
    THEN UpdateMax(max_z_hit, PanelCommon(p, cx, cy, cz, col_radius).ZMax)
    ELSE max_z_hit

RECURSIVE MaxZHit(_, _, _, _, _, _, _)
MaxZHit(ps, i, cx, cy, cz, col_radius, max_z_hit) ==
    IF i > Len(ps) THEN max_z_hit
    ELSE MaxZHit(ps, i + 1, cx, cy, cz, col_radius,
                 PanelStep(ps[i], cx, cy, cz, col_radius, max_z_hit))

\* The sanity rule: base_z > cz - (TIP_RADIUS + NECK_HEIGHT) * 0.95 - 1.0
NeverRejects(base_z, cz) == FALSE
\* A rule that rejects only a base above the contact itself.
RejectsAboveContact(base_z, cz) == base_z > cz
SanityRejects(base_z, cz) ==
    100 * base_z > 100 * cz - 95 * (TIP_RADIUS + NECK_HEIGHT) - 100 * 100

\* Returns 0 for the raft, -100 (-1.0) to skip, else the base height.
_find_support_base(ps, cx, cy, cz, col_radius) ==
    LET max_z_hit == MaxZHit(ps, 1, cx, cy, cz, col_radius, -100)
        base_z == max_z_hit + MODEL_REST_GAP
    IN  IF max_z_hit < 0 THEN 0
        ELSE IF SanityRejects(base_z, cz) THEN -100
        ELSE base_z

\* The routing of the collision loop.
RouteAllToRaft(base_z) == IF base_z < 0 THEN "skipped" ELSE "raft"
RouteDropsRejected(base_z) ==
    IF base_z < 0 THEN "dropped" ELSE IF base_z < 10 THEN "raft" ELSE "model"
Route(base_z) ==
    IF base_z < 0 THEN "skipped"
    ELSE IF base_z < 10 THEN "raft"
    ELSE "model"

\* Contact.is_model_resting: base height above 0.1 mm.
is_model_resting(base_z) == base_z > 10

(***************************************************************************)
(* Support synthesis.  A shape is [part, contact, x, y, z0, z1, tx, ty]:    *)
(* the primitive, the contact position it was built for, the XY position   *)
(* of its axis foot, its Z extent along the axis and the XY position of    *)
(* the top of its axis (that of the foot, except for a neck).              *)
(***************************************************************************)
Shape(part, c, x, y, z0, z1) ==
    [part |-> part, contact |-> <<c[1], c[2], c[3]>>, x |-> x, y |-> y,
     z0 |-> z0, z1 |-> z1, tx |-> x, ty |-> y]

\* build_tapered_support(cx, cy, cz, raft_top_z): pad, column, cone.
build_tapered_support(c, raft_top_z) ==
    LET col_bot == raft_top_z + BASE_PAD_HEIGHT
        col_top == c[3] - TIP_HEIGHT
        top == IF col_top > col_bot THEN col_top ELSE col_bot
    IN  <<Shape("pad", c, c[1], c[2], raft_top_z, col_bot)>>
        \o (IF col_top > col_bot
            THEN <<Shape("column", c, c[1], c[2], col_bot, col_top)>>
            ELSE <<>>)
        \o <<Shape("cone", c, c[1], c[2], top, top + TIP_HEIGHT)>>

\* The unit face normal times a length: fn_len < 0.01 divides by 1.0.
AlongNormal(len, n) ==
    LET len0 == Isqrt(n[1] * n[1] + n[2] * n[2] + n[3] * n[3])
        fn_len == IF len0 < 1 THEN 100 ELSE len0
    IN  <<DivR(len * n[1], fn_len), DivR(len * n[2], fn_len),
          DivR(len * n[3], fn_len)>>

\* sc: the contact displaced by TIP_RADIUS along the face normal.
SphereCentre(cx, cy, cz, n) ==
    <<cx + AlongNormal(TIP_RADIUS, n)[1], cy + AlongNormal(TIP_RADIUS, n)[2],
      cz + AlongNormal(TIP_RADIUS, n)[3]>>

\* nb: NECK_HEIGHT below the sphere, displaced toward the interior in XY.
NeckBase(cx, cy, cz, n) ==
    LET sc == SphereCentre(cx, cy, cz, n)
    IN  <<sc[1] - AlongNormal(NECK_HEIGHT, n)[1],
          sc[2] - AlongNormal(NECK_HEIGHT, n)[2],
          sc[3] + AlongNormal(NECK_HEIGHT, n)[3]>>

\* _angled_support(cx, cy, cz, base_z, nx, ny, nz): column at the neck-base
\* XY, neck, sphere.  m is a model contact <<cx, cy, cz, base_z, nx, ny, nz>>.
_angled_support(m) ==
    LET n == <<m[5], m[6], m[7]>>
        sc == SphereCentre(m[1], m[2], m[3], n)
        nb == NeckBase(m[1], m[2], m[3], n)
        base_z == m[4]
        col_top == IF nb[3] > base_z THEN nb[3] ELSE base_z
        nv2 == (sc[1] - nb[1]) * (sc[1] - nb[1])
               + (sc[2] - nb[2]) * (sc[2] - nb[2])
               + (sc[3] - col_top) * (sc[3] - col_top)
    IN  (IF nb[3] > base_z
         THEN <<Shape("column", m, nb[1], nb[2], base_z, nb[3])>>
         ELSE <<>>)
        \o (IF nv2 > 100
            THEN <<[Shape("neck", m, nb[1], nb[2], col_top, sc[3])
                       EXCEPT !.tx = sc[1], !.ty = sc[2]]>>
            ELSE <<>>)
        \o <<Shape("sphere", m, sc[1], sc[2], sc[3] - TIP_RADIUS,
                   sc[3] + TIP_RADIUS)>>

\* build_tapered_support(cx, cy, cz, raft_top_z, face_normal): the angled
\* support standing on a raft pad placed under the displaced column.
build_tapered_support_face_normal(c, raft_top_z) ==
    LET n == <<c[4], c[5], c[6]>>
        nb == NeckBase(c[1], c[2], c[3], n)
        pad_top == raft_top_z + BASE_PAD_HEIGHT
    IN  <<Shape("pad", c, nb[1], nb[2], raft_top_z, pad_top)>>
        \o _angled_support(<<c[1], c[2], c[3], pad_top, c[4], c[5], c[6]>>)

(***************************************************************************)
(* Raft and build-volume check.                                            *)
(***************************************************************************)
\* The raft pad position of a raft contact <<cx, cy, cz, nx, ny, nz>>:
\* fn_len > 0.01 normalises, else the direction is (0, 0, -1).
PadAtContact(c) == <<c[1], c[2], c[3]>>
RaftPadPosition(c) ==
    LET fn_len == Isqrt(c[4] * c[4] + c[5] * c[5] + c[6] * c[6])
        fnx(len) == IF fn_len > 1 THEN DivR(len * c[4], fn_len) ELSE 0
        fny(len) == IF fn_len > 1 THEN DivR(len * c[5], fn_len) ELSE 0
    IN  <<c[1] + fnx(TIP_RADIUS) - fnx(NECK_HEIGHT),
          c[2] + fny(TIP_RADIUS) - fny(NECK_HEIGHT), c[3]>>

\* The pad extent of contact points folded into the footprint; points is a
\* sequence of <<cx, cy, cz>>; contact_points=None is the record
\* [none |-> TRUE], a list is [none |-> FALSE, pts |-> the sequence].
RECURSIVE CoverPads(_, _, _)
CoverPads(box, points, i) ==
    IF i > Len(points) THEN box
    ELSE CoverPads([XMin |-> Min2(box.XMin, points[i][1] - BASE_PAD_RADIUS),
                    XMax |-> Max2(box.XMax, points[i][1] + BASE_PAD_RADIUS),
                    YMin |-> Min2(box.YMin, points[i][2] - BASE_PAD_RADIUS),
                    YMax |-> Max2(box.YMax, points[i][2] + BASE_PAD_RADIUS)],
                   points, i + 1)

\* build_raft(shape, contact_points, margin, thickness, chamfer): the raft
\* box; chamfer_raises says that the kernel fails to chamfer it.
RaftOfModelOnly(bb, points, margin, thickness, chamfer, chamfer_raises) ==
    [XMin |-> bb.XMin - margin, XMax |-> bb.XMax + margin,
     YMin |-> bb.YMin - margin, YMax |-> bb.YMax + margin,
     ZMin |-> -thickness, ZMax |-> 0, chamfered |-> FALSE]
build_raft(bb, points, margin, thickness, chamfer, chamfer_raises) ==
    LET foot == [XMin |-> bb.XMin, XMax |-> bb.XMax,
                 YMin |-> bb.YMin, YMax |-> bb.YMax]
        box == IF points.none THEN foot ELSE CoverPads(foot, points.pts, 1)
    IN  [XMin |-> box.XMin - margin, XMax |-> box.XMax + margin,
         YMin |-> box.YMin - margin, YMax |-> box.YMax + margin,
         ZMin |-> -thickness, ZMax |-> 0,
         chamfered |-> chamfer > 0 /\ ~chamfer_raises]

\* fits = all(o <= 0 for o in overflow)
FitsStrictly(overflow) == \A i \in 1..3 : overflow[i] < 0
FitsAll(overflow) == \A i \in 1..3 : overflow[i] <= 0

\* check_build_fit(shape, printer, margin), size being the lengths of
\* shape.BoundBox: the result dict (st = "ok"), or st = "ValueError".
check_build_fit(size, printer, margin) ==
    IF printer \notin DOMAIN PRINTER_VOLUMES THEN [st |-> "ValueError"]
    ELSE LET vol == PRINTER_VOLUMES[printer]
             overflow == [i \in 1..3 |-> size[i] - (vol[i] - 2 * margin)]
         IN  [st |-> "ok", fits |-> FitsAll(overflow), model_size |-> size,
              build_volume |-> vol, overflow |-> overflow]

(***************************************************************************)
(* Clipping of the supports against the panels.  Solids are boxes: a       *)
(* support primitive is the box around it, and a clipped support is that   *)
(* box with the boxes in cuts removed.                                     *)
(***************************************************************************)
Box(x0, x1, y0, y1, z0, z1) ==
    [XMin |-> x0, XMax |-> x1, YMin |-> y0, YMax |-> y1, ZMin |-> z0,
     ZMax |-> z1]

\* a.common(b) of two boxes
Meet(a, b) ==
    Box(Max2(a.XMin, b.XMin), Min2(a.XMax, b.XMax),
        Max2(a.YMin, b.YMin), Min2(a.YMax, b.YMax),
        Max2(a.ZMin, b.ZMin), Min2(a.ZMax, b.ZMax))

\* Volume of a box, 0 when it is empty.
Vol(b) ==
    IF b.XMax <= b.XMin \/ b.YMax <= b.YMin \/ b.ZMax <= b.ZMin THEN 0
    ELSE XLength(b) * YLength(b) * ZLength(b)

\* Volume of box a with the boxes of cuts removed.
RECURSIVE VolMinus(_, _)
VolMinus(a, cuts) ==
    IF Vol(a) = 0 THEN 0
    ELSE IF cuts = <<>> THEN Vol(a)
    ELSE VolMinus(a, Tail(cuts)) - VolMinus(Meet(a, Head(cuts)), Tail(cuts))

\* The box around a support primitive.
SolidBox(s) ==
    LET r == IF s.part = "pad" THEN BASE_PAD_RADIUS
             ELSE IF s.part = "sphere" THEN TIP_RADIUS
             ELSE COLUMN_RADIUS
    IN  Box(Min2(s.x, s.tx) - r, Max2(s.x, s.tx) + r,
            Min2(s.y, s.ty) - r, Max2(s.y, s.ty) + r,
            Min2(s.z0, s.z1), Max2(s.z0, s.z1))

\* result.BoundBox of a clipped support of positive volume: on each axis the
\* first and the last unit slice that keeps material.
ResultBB(a, cuts) ==
    LET B == {cuts[i] : i \in 1..Len(cuts)}
        lo(amin, amax, cmax) == {amin} \cup {v \in cmax : amin < v /\ v < amax}
        hi(amin, amax, cmin) == {amax} \cup {v \in cmin : amin < v /\ v < amax}
    IN  Box(SetMin({v \in lo(a.XMin, a.XMax, {c.XMax : c \in B}) :
                VolMinus([a EXCEPT !.XMin = v, !.XMax = v + 1], cuts) > 0}),
            SetMax({v \in hi(a.XMin, a.XMax, {c.XMin : c \in B}) :
                VolMinus([a EXCEPT !.XMin = v - 1, !.XMax = v], cuts) > 0}),
            SetMin({v \in lo(a.YMin, a.YMax, {c.YMax : c \in B}) :
                VolMinus([a EXCEPT !.YMin = v, !.YMax = v + 1], cuts) > 0}),
            SetMax({v \in hi(a.YMin, a.YMax, {c.YMin : c \in B}) :
                VolMinus([a EXCEPT !.YMin = v - 1, !.YMax = v], cuts) > 0}),
            SetMin({v \in lo(a.ZMin, a.ZMax, {c.ZMax : c \in B}) :
                VolMinus([a EXCEPT !.ZMin = v, !.ZMax = v + 1], cuts) > 0}),
            SetMax({v \in hi(a.ZMin, a.ZMax, {c.ZMin : c \in B}) :
                VolMinus([a EXCEPT !.ZMin = v - 1, !.ZMax = v], cuts) > 0}))

PanelBox(p) == Box(p.XMin, p.XMax, p.YMin, p.YMax, p.ZMin, p.ZMax)

\* The exterior slab of a panel: EXT_SLAB_DEPTH outward from the face of the
\* panel that looks away from the model centre (mcx, mcy).
ExteriorSlab(p, mcx, mcy) ==
    LET dx2 == p.XMin + p.XMax - 2 * mcx
        dy2 == p.YMin + p.YMax - 2 * mcy
        d == EXT_SLAB_DEPTH
        m == EXT_SLAB_MARGIN
    IN  IF Abs(dx2) > Abs(dy2)
        THEN IF dx2 > 0
             THEN Box(p.XMax - 10, p.XMax - 10 + d, p.YMin - m, p.YMax + m,
                      p.ZMin - m, p.ZMax + m)
             ELSE Box(p.XMin - d + 10, p.XMin + 10, p.YMin - m, p.YMax + m,
                      p.ZMin - m, p.ZMax + m)
        ELSE IF dy2 > 0
             THEN Box(p.XMin - m, p.XMax + m, p.YMax - 10, p.YMax - 10 + d,
                      p.ZMin - m, p.ZMax + m)
             ELSE Box(p.XMin - m, p.XMax + m, p.YMin - d + 10, p.YMin + 10,
                      p.ZMin - m, p.ZMax + m)

\* One iteration of the panel loop for one support: the cuts after it.
ClipStepKeeps(sup, p, cuts, mcx, mcy) == cuts
ClipStepAlwaysCuts(sup, p, cuts, mcx, mcy) ==
    IF p.commonRaises THEN cuts
    ELSE cuts \o <<PanelBox(p), ExteriorSlab(p, mcx, mcy)>>
ClipStep(sup, p, cuts, mcx, mcy) ==
    LET rbb == ResultBB(SolidBox(sup), cuts)
        cut2 == cuts \o <<PanelBox(p), ExteriorSlab(p, mcx, mcy)>>
    IN  IF \/ rbb.XMax < p.XMin - 50 \/ rbb.XMin > p.XMax + 50
           \/ rbb.YMax < p.YMin - 50 \/ rbb.YMin > p.YMax + 50
           \/ rbb.ZMax < p.ZMin - 50 \/ rbb.ZMin > p.ZMax + 50
        THEN cuts
        ELSE IF p.commonRaises THEN cuts
        ELSE IF VolMinus(Meet(SolidBox(sup), PanelBox(p)), cuts) < 1000
        THEN cuts
        ELSE IF VolMinus(SolidBox(sup), cut2) > 10000 THEN cut2
        ELSE cuts

RECURSIVE ClipFrom(_, _, _, _, _, _)
ClipFrom(sup, ps, j, cuts, mcx, mcy) ==
    IF j > Len(ps) THEN cuts
    ELSE ClipFrom(sup, ps, j + 1, ClipStep(sup, ps[j], cuts, mcx, mcy),
                  mcx, mcy)

\* The clipping loop: one result per support shape, in order.
ClipSupportShapes(shapes, ps, mcx, mcy) ==
    [k \in 1..Len(shapes) |->
        [shape |-> shapes[k],
         cuts |-> ClipFrom(shapes[k], ps, 1, <<>>, mcx, mcy)]]

\* The bounding box of boxes.
Hull(boxes) ==
    Box(SetMin({b.XMin : b \in boxes}), SetMax({b.XMax : b \in boxes}),
        SetMin({b.YMin : b \in boxes}), SetMax({b.YMax : b \in boxes}),
        SetMin({b.ZMin : b \in boxes}), SetMax({b.ZMax : b \in boxes}))

(***************************************************************************)
(* run_support_pipeline, steps 4 to 6.                                     *)
(***************************************************************************)
\* shape.BoundBox of a shape given by its faces.
BoundBox(shape_) ==
    [XMin |-> SetMin({shape_[i].XMin : i \in 1..Len(shape_)}),
     XMax |-> SetMax({shape_[i].XMax : i \in 1..Len(shape_)}),
     YMin |-> SetMin({shape_[i].YMin : i \in 1..Len(shape_)}),
     YMax |-> SetMax({shape_[i].YMax : i \in 1..Len(shape_)}),
     ZMin |-> SetMin({shape_[i].ZMin : i \in 1..Len(shape_)}),
     ZMax |-> SetMax({shape_[i].ZMax : i \in 1..Len(shape_)})]

\* build_supports(contact_points, raft_top_z): the shapes of the compound.
build_supports(contact_points, raft_top_z) ==
    Flatten([i \in 1..Len(contact_points) |->
                build_tapered_support(contact_points[i], raft_top_z)])

\* 4. validate_tilt_direction only reports; 5. the Supports object, only
\* when there are contacts.
BuildSupports ==
    /\ rpc = "build"
    /\ IF all_contacts # <<>>
       THEN /\ support_compound' =
                   build_supports([i \in 1..Len(all_contacts) |->
                                      Pos(all_contacts[i])], 0)
            /\ doc' = doc \cup {"Supports"}
       ELSE UNCHANGED <<support_compound, doc>>
    /\ rpc' = "raft"
    /\ UNCHANGED <<shape, wall_outward_normal, window_bounds, mullion_x,
                   interior_y_side, classified, lintel_contacts,
                   bottom_contacts, all_contacts, raft_shape, gvars, gout,
                   uvars>>

\* 6. the Raft object, sized to the raised shape and all contacts.
BuildRaft ==
    /\ rpc = "raft"
    /\ raft_shape' =
           [st |-> "built",
            box |-> build_raft(BoundBox(shape),
                        [none |-> FALSE,
                         pts |-> [i \in 1..Len(all_contacts) |->
                                     Pos(all_contacts[i])]],
                        RAFT_MARGIN, RAFT_THICKNESS, RAFT_CHAMFER, FALSE)]
    /\ doc' = doc \cup {"Raft"}
    /\ rpc' = "done"
    /\ UNCHANGED <<shape, wall_outward_normal, window_bounds, mullion_x,
                   interior_y_side, classified, lintel_contacts,
                   bottom_contacts, all_contacts, support_compound, gvars,
                   gout, uvars>>

SNext ==
    \/ Raise
    \/ Classify
    \/ Lintel
    \/ Bottom
    \/ Overhang
    \/ BuildSupports
    \/ BuildRaft

SpecSupport == SInit /\ [][SNext]_vars

(***************************************************************************)
(* Inputs of generate_building_print.py: the faces of the oriented model   *)
(* s5 (inside ModelBB, at or above MODEL_RAISE) and its panels.            *)
(***************************************************************************)
GFaces ==
    << Face(TRUE, 5, -31, -95, 4344, 181, 0, 2400, 0, 181, 300, 490),
       Face(TRUE, -5, 31, -95, 4344, 181, 0, 2400, 1419, 1600, 300, 490),
       Face(TRUE, -31, 0, -95, 1200, 99, 0, 99, 181, 1419, 300, 340),
       Face(TRUE, 0, -31, -95, 960, 40, 0, 2400, 0, 40, 1000, 1013),
       Face(TRUE, 0, 0, -100, 30, 50, 500, 560, 500, 550, 800, 800),
       Face(FALSE, 0, 0, 0, 400, 100, 600, 800, 600, 800, 900, 900),
       Face(TRUE, 0, -95, 31, 60000, 930, 0, 2400, 0, 930, 300, 3150),
       Face(TRUE, 0, 0, -100, 3200, 400, 800, 1600, 600, 1000, 2000, 2000),
       Face(TRUE, 0, 0, -100, 105, 70, 1900, 1970, 500, 650, 600, 600),
       Face(TRUE, 0, -31, -95, 3200, 400, 400, 1200, 1000, 1400, 1500, 1630),
       Face(TRUE, 0, 0, -100, 6400, 400, 400, 2000, 600, 1000, 2000, 2000),
       Face(TRUE, 0, -31, -95, 4680, 400, 1230, 2400, 1000, 1400, 1500, 1630),
       Face(TRUE, 0, 0, -100, 3200, 400, 810, 1610, 600, 1000, 2000, 2000),
       Face(TRUE, 0, 0, -100, 1600, 400, 400, 800, 400, 800, 300, 300) >>

\* s5.Faces: up to MaxFaces distinct faces, in any order.
FaceSeqs ==
    {[i \in 1..Len(ix) |-> GFaces[ix[i]]] :
        ix \in {q \in UNION {[1..n -> 1..Len(GFaces)] : n \in 1..MaxFaces} :
                   \A i, j \in 1..Len(q) : i # j => q[i] # q[j]}}

WallFront == Panel(0, 2400, 0, 181, 300, 3000, FALSE, FALSE)
WallBack == Panel(0, 2400, 1419, 1600, 300, 3000, FALSE, FALSE)
PanelConfigs ==
    { <<WallFront, WallBack>>,
      <<WallFront, WallBack,
        Panel(1000, 1400, 600, 1000, 300, 900, FALSE, FALSE)>>,
      <<WallFront, WallBack,
        Panel(1000, 1400, 600, 1000, 300, 1650, FALSE, FALSE)>>,
      <<WallFront, Panel(1000, 1400, 600, 1000, 300, 900, FALSE, FALSE),
        Panel(1100, 1300, 700, 900, 300, 600, FALSE, FALSE)>>,
      <<WallFront, Panel(1245, 1400, 600, 1000, 300, 900, FALSE, FALSE),
        Panel(1000, 1400, 600, 1000, 300, 500, FALSE, TRUE)>>,
      <<WallBack, Panel(1230, 1400, 600, 1000, 300, 700, FALSE, FALSE),
        Panel(1000, 1400, 600, 1000, 300, 900, TRUE, FALSE)>>,
      <<WallFront, Panel(700, 900, 700, 900, 300, 900, FALSE, FALSE),
        Panel(700, 900, 1100, 1300, 300, 1100, FALSE, FALSE)>>,
      <<WallFront, Panel(0, 2400, 1419, 1600, 300, 25900, FALSE, FALSE),
        Panel(1000, 1400, 600, 1000, 300, 1450, FALSE, FALSE)>> }

\* run_support_pipeline is not running.
SIdle ==
    /\ rpc = "idle" /\ shape = <<>> /\ wall_outward_normal = <<0, 0, 0>>
    /\ window_bounds = NoWindow /\ mullion_x = NoMullion
    /\ interior_y_side = "none" /\ classified = <<>>
    /\ lintel_contacts = <<>> /\ bottom_contacts = <<>> /\ all_contacts = <<>>
    /\ support_compound = <<>> /\ raft_shape = [st |-> "none"]

(***************************************************************************)
(* generate_building_print.py, stage by stage.                             *)
(***************************************************************************)
Init ==
    /\ pc = "start"
    /\ \/ /\ doc = {"ThinBuilding", "BuildingPrint"}
          /\ faces \in FaceSeqs
          /\ panels \in PanelConfigs
       \/ /\ doc = {"Sketch"}
          /\ faces = <<>> /\ panels = <<>>
    /\ fidx = 1
    /\ raw_contacts = <<>> /\ cells = <<>> /\ contacts = <<>> /\ cidx = 1
    /\ raft_contacts = <<>> /\ model_contacts = <<>> /\ skipped = 0
    /\ all_support_shapes = <<>>
    /\ GOutIdle
    /\ SIdle /\ UIdle

\* thin = doc.getObject("ThinBuilding"); raise ValueError if thin is None;
\* the orientation of copies of thin.Shape into s5.
Start ==
    /\ pc = "start"
    /\ pc' = IF ~HasObject(doc, "ThinBuilding") THEN "ValueError"
             ELSE "collect"
    /\ UNCHANGED <<faces, fidx, panels, raw_contacts, cells, contacts, cidx,
                   raft_contacts, model_contacts, skipped,
                   all_support_shapes, svars, sout, gout, doc, uvars>>

\* One iteration of the main pass over s5.Faces.
Collect ==
    /\ pc = "collect" /\ fidx <= Len(faces)
    /\ raw_contacts' = raw_contacts \o
           (IF MainPassSelects(faces[fidx]) THEN _collect_contacts(faces[fidx])
            ELSE <<>>)
    /\ fidx' = fidx + 1
    /\ UNCHANGED <<pc, faces, panels, cells, contacts, cidx, raft_contacts,
                   model_contacts, skipped, all_support_shapes, svars,
                   sout, gout, doc, uvars>>

\* The clustering loop over raw_contacts.
Cluster ==
    /\ pc = "collect" /\ fidx > Len(faces)
    /\ cells' = ClusterFrom(raw_contacts, 1, <<>>)
    /\ pc' = "clip"
    /\ UNCHANGED <<faces, fidx, panels, raw_contacts, contacts, cidx,
                   raft_contacts, model_contacts, skipped,
                   all_support_shapes, svars,
                   sout, gout, doc, uvars>>

\* contacts = [clip(c) for c in cells.values()]
Clip ==
    /\ pc = "clip"
    /\ contacts' = [i \in 1..Len(cells) |-> ClipContact(cells[i].val)]
    /\ pc' = "nudge"
    /\ UNCHANGED <<faces, fidx, panels, raw_contacts, cells, cidx,
                   raft_contacts, model_contacts, skipped,
                   all_support_shapes, svars,
                   sout, gout, doc, uvars>>

\* The inward nudge loop; contacts = nudged.
Nudge ==
    /\ pc = "nudge"
    /\ contacts' = [i \in 1..Len(contacts) |-> NudgeContact(contacts[i])]
    /\ pc' = "collide"
    /\ UNCHANGED <<faces, fidx, panels, raw_contacts, cells, cidx,
                   raft_contacts, model_contacts, skipped,
                   all_support_shapes, svars,
                   sout, gout, doc, uvars>>

\* One iteration of the collision routing loop.
CheckContact ==
    /\ pc = "collide" /\ cidx <= Len(contacts)
    /\ LET c == contacts[cidx]
           base_z == _find_support_base(panels, c[1], c[2], c[3], COLUMN_RADIUS)
           to == Route(base_z)
       IN  /\ skipped' = IF to = "skipped" THEN skipped + 1 ELSE skipped
           /\ raft_contacts' = IF to = "raft" THEN Append(raft_contacts, c)
                               ELSE raft_contacts
           /\ model_contacts' =
                  IF to = "model"
                  THEN Append(model_contacts,
                              <<c[1], c[2], c[3], base_z, c[4], c[5], c[6]>>)
                  ELSE model_contacts
    /\ cidx' = cidx + 1
    /\ UNCHANGED <<pc, faces, fidx, panels, raw_contacts, cells, contacts,
                   all_support_shapes, svars,
                   sout, gout, doc, uvars>>

\* The two support synthesis loops.
Build ==
    /\ pc = "collide" /\ cidx > Len(contacts)
    /\ all_support_shapes' =
           Flatten([i \in 1..Len(raft_contacts) |->
                       build_tapered_support_face_normal(raft_contacts[i], 0)])
           \o Flatten([i \in 1..Len(model_contacts) |->
                          _angled_support(model_contacts[i])])
    /\ pc' = "built"
    /\ UNCHANGED <<faces, fidx, panels, raw_contacts, cells, contacts, cidx,
                   raft_contacts, model_contacts, skipped, svars,
                   sout, gout, doc, uvars>>

\* model_bb = s5.BoundBox: the footprint, from MODEL_RAISE up to the tallest
\* solid.
ModelBox(ps) ==
    Box(ModelBB.XMin, ModelBB.XMax, ModelBB.YMin, ModelBB.YMax, MODEL_RAISE,
        SetMax({ps[j].ZMax : j \in 1..Len(ps)}))

\* The clipping of the supports against the panels and their exterior slabs.
ClipSupports ==
    /\ pc = "built"
    /\ clipped_shapes' =
           ClipSupportShapes(all_support_shapes, panels, center_x, center_y)
    /\ clip_count' =
           Cardinality({k \in 1..Len(all_support_shapes) :
                           clipped_shapes'[k].cuts # <<>>})
    /\ pc' = "clipped"
    /\ UNCHANGED <<faces, fidx, panels, raw_contacts, cells, contacts, cidx,
                   raft_contacts, model_contacts, skipped,
                   all_support_shapes, raft_pad_positions, raft, fit, final,
                   mesh, svars, sout, doc, uvars>>

\* The raft, sized from s5 and the raft pad positions.
SizeRaft ==
    /\ pc = "clipped"
    /\ raft_pad_positions' =
           [i \in 1..Len(raft_contacts) |-> RaftPadPosition(raft_contacts[i])]
    /\ raft' =
           [st |-> "built",
            box |-> build_raft(ModelBox(panels),
                        IF raft_pad_positions' # <<>>
                        THEN [none |-> FALSE, pts |-> raft_pad_positions']
                        ELSE [none |-> TRUE],
                        100, RAFT_THICKNESS, RAFT_CHAMFER, FALSE)]
    /\ pc' = "raft"
    /\ UNCHANGED <<faces, fidx, panels, raw_contacts, cells, contacts, cidx,
                   raft_contacts, model_contacts, skipped,
                   all_support_shapes, clipped_shapes, clip_count, fit, final,
                   mesh, svars, sout, doc, uvars>>

\* Part.makeCompound([s5, supports, raft]).BoundBox
PrintBox ==
    Hull({ModelBox(panels), raft.box}
         \cup {ResultBB(SolidBox(clipped_shapes[k].shape),
                        clipped_shapes[k].cuts) :
                  k \in 1..Len(clipped_shapes)})

\* Where the script goes on after check_build_fit returned.
StopsWhenTooBig(result) == IF result.fits THEN "fit" ELSE "stopped"
AfterFitCheck(result) == "fit"

\* check_build_fit(..., printer='m7_pro', margin=0); its result is dropped.
FitCheck ==
    /\ pc = "raft"
    /\ fit' = check_build_fit(<<XLength(PrintBox), YLength(PrintBox),
                                ZLength(PrintBox)>>, "m7_pro", 0)
    /\ pc' = AfterFitCheck(fit')
    /\ UNCHANGED <<faces, fidx, panels, raw_contacts, cells, contacts, cidx,
                   raft_contacts, model_contacts, skipped,
                   all_support_shapes, clipped_shapes, clip_count,
                   raft_pad_positions, raft, final, mesh, svars, sout, doc,
                   uvars>>

\* final = Part.makeCompound([s5] + list(supports.Solids) + [raft])
FinalCompound ==
    [st |-> "compound", model |-> ModelBox(panels),
     supports |-> clipped_shapes, raft |-> raft.box]

\* The final compound and the update of the document.
UpdateDocument ==
    /\ pc = "fit"
    /\ final' = FinalCompound
    /\ doc' = (doc \ {"BuildingPrint", "BuildingPrintSupported"})
                  \cup {"BuildingPrintSupported"}
    /\ pc' = "doc"
    /\ UNCHANGED <<faces, fidx, panels, raw_contacts, cells, contacts, cidx,
                   raft_contacts, model_contacts, skipped,
                   all_support_shapes, clipped_shapes, clip_count,
                   raft_pad_positions, raft, fit, mesh, svars, sout, uvars>>

\* The STL export of final.
Export ==
    /\ pc = "doc"
    /\ mesh' = TRUE
    /\ pc' = "done"
    /\ UNCHANGED <<faces, fidx, panels, raw_contacts, cells, contacts, cidx,
                   raft_contacts, model_contacts, skipped,
                   all_support_shapes, clipped_shapes, clip_count,
                   raft_pad_positions, raft, fit, final, svars, sout, doc,
                   uvars>>

Next ==
    \/ Start
    \/ Collect
    \/ Cluster
    \/ Clip
    \/ Nudge
    \/ CheckContact
    \/ Build
    \/ ClipSupports
    \/ SizeRaft
    \/ FitCheck
    \/ UpdateDocument
    \/ Export

Spec == Init /\ [][Next]_vars

\* The script runs on after the fit check: no later statement waits.
FairSpec == Spec /\ WF_vars(UpdateDocument) /\ WF_vars(Export)

\* The stages after support synthesis.
Built == pc \in {"built", "clipped", "raft", "fit", "doc", "done"}

(***************************************************************************)
(* Properties of generate_building_print.py.                               *)
(***************************************************************************)
RawKeys == {CellKey(raw_contacts[i]) : i \in 1..Len(raw_contacts)}
RawOfKey(key) == {i \in 1..Len(raw_contacts) : CellKey(raw_contacts[i]) = key}
Clustered == pc \notin {"start", "ValueError", "collect"}

\* C1: grid clustering retains, for every cell key occurring among the raw
\* contacts, exactly one contact; the retained contact is a raw contact of
\* that cell, unchanged, with the minimum z of the cell; contacts with
\* different keys are never merged.
C1_ClusterKeepsMinOriginal ==
    Clustered =>
        /\ {cells[j].key : j \in 1..Len(cells)} = RawKeys
        /\ Len(cells) = Cardinality(RawKeys)
        /\ \A j \in 1..Len(cells) :
              /\ \E i \in RawOfKey(cells[j].key) : raw_contacts[i] = cells[j].val
              /\ \A i \in RawOfKey(cells[j].key) :
                    cells[j].val[3] <= raw_contacts[i][3]

\* A cell that received two raw contacts, the later one lower, and whose
\* retained contact is not at the cell centre; and two cells side by side.
C1_Witness ==
    /\ pc = "clip"
    /\ Len(cells) >= 2
    /\ \E j \in 1..Len(cells) : \E i, k \in RawOfKey(cells[j].key) :
          /\ i < k
          /\ raw_contacts[k][3] < raw_contacts[i][3]
          /\ cells[j].val = raw_contacts[k]
          /\ <<cells[j].val[1], cells[j].val[2]>> # cells[j].key

RaftSet == {raft_contacts[i] : i \in 1..Len(raft_contacts)}
ModelSet ==
    {<<m[1], m[2], m[3], m[5], m[6], m[7]>> :
        m \in {model_contacts[i] : i \in 1..Len(model_contacts)}}
Routed == IF pc = "collide" THEN cidx - 1
          ELSE IF Built THEN Len(contacts) ELSE 0

\* C2: collision routing is a partition: every clustered contact the loop
\* has handled is in exactly one of raft_contacts, model_contacts or the
\* skipped count; the three sizes add up to the number of contacts and no
\* contact is in two of them.
C2_RoutingPartition ==
    /\ Len(raft_contacts) + Len(model_contacts) + skipped = Routed
    /\ RaftSet \cap ModelSet = {}
    /\ RaftSet \cup ModelSet \subseteq {contacts[i] : i \in 1..Routed}
    /\ Cardinality({i \in 1..Routed : contacts[i] \notin RaftSet \cup ModelSet})
           = skipped
    /\ Cardinality(RaftSet) = Len(raft_contacts)
    /\ Cardinality(ModelSet) = Len(model_contacts)

\* The loop has finished with a raft contact, a model contact and a skip.
C2_Witness ==
    /\ pc = "built"
    /\ raft_contacts # <<>> /\ model_contacts # <<>> /\ skipped > 0

\* The panels whose intersection with the column of contact c has a
\* volume above 0.001 mm^3, and the top of that intersection.
Blocking(c) ==
    {i \in 1..Len(panels) :
        /\ PanelExamined(panels[i], c[1], c[2], c[3], COLUMN_RADIUS)
        /\ PanelCommon(panels[i], c[1], c[2], c[3], COLUMN_RADIUS).Volume > 1000}
HitTop(c, i) == PanelCommon(panels[i], c[1], c[2], c[3], COLUMN_RADIUS).ZMax
BaseOf(c) == _find_support_base(panels, c[1], c[2], c[3], COLUMN_RADIUS)
Nudged == pc = "collide" \/ Built

\* C3: _find_support_base returns 0 exactly when no panel yields an
\* intersection of volume > 0.001 with the column; otherwise, unless the
\* contact is rejected, it returns the maximum intersection top over the
\* blocking panels plus MODEL_REST_GAP, so no blocking panel reaches above
\* the returned base inside the checked region.
C3_BaseIsMaxHitPlusGap ==
    Nudged =>
        \A n \in 1..Len(contacts) :
            LET c == contacts[n] IN
            /\ BaseOf(c) = 0 <=> Blocking(c) = {}
            /\ (Blocking(c) # {} /\ BaseOf(c) # -100) =>
                  /\ BaseOf(c) = SetMax({HitTop(c, i) : i \in Blocking(c)})
                                 + MODEL_REST_GAP
                  /\ \A i \in Blocking(c) : HitTop(c, i) < BaseOf(c)

\* A contact blocked by two panels, the earlier one reaching higher, placed
\* on the higher one; and a panel list holding an unexamined panel.
C3_Witness ==
    /\ pc = "built"
    /\ \E n \in 1..Len(contacts) : \E i, j \in Blocking(contacts[n]) :
          /\ i < j
          /\ HitTop(contacts[n], i) > HitTop(contacts[n], j)
          /\ BaseOf(contacts[n]) = HitTop(contacts[n], i) + MODEL_REST_GAP
          /\ \E k \in 1..Len(model_contacts) :
                model_contacts[k][4] = BaseOf(contacts[n])

\* The base height the detector computes for contact c before the sanity
\* rule: 0 with a clear path, else the highest hit plus MODEL_REST_GAP.
ComputedBase(c) ==
    IF Blocking(c) = {} THEN 0
    ELSE SetMax({HitTop(c, i) : i \in Blocking(c)}) + MODEL_REST_GAP

\* base > cz - (TIP_RADIUS + NECK_HEIGHT) * 0.95 - 1.0
ExceedsBound(base, cz) ==
    100 * base > 100 * cz - 95 * (TIP_RADIUS + NECK_HEIGHT) - 10000

Pos3(c) == <<c[1], c[2], c[3]>>
HasShape(c) ==
    \E k \in 1..Len(all_support_shapes) :
        all_support_shapes[k].contact = Pos3(c)
InLists(c) ==
    \/ \E k \in 1..Len(raft_contacts) : Pos3(raft_contacts[k]) = Pos3(c)
    \/ \E k \in 1..Len(model_contacts) : Pos3(model_contacts[k]) = Pos3(c)

\* C4 as stated: whenever the computed base height exceeds
\* cz - (TIP_RADIUS + NECK_HEIGHT) * 0.95 - 1.0 the detector returns -1, the
\* contact is only counted in skipped and gets no support shape; a contact
\* whose base height is at or below the bound is never skipped.
C4_SanityRule ==
    Nudged =>
        \A n \in 1..Len(contacts) :
            LET c == contacts[n] IN
            IF ExceedsBound(ComputedBase(c), c[3])
            THEN BaseOf(c) = -100 /\ ~InLists(c) /\ ~HasShape(c)
            ELSE BaseOf(c) # -100 /\ (n <= Routed => InLists(c))

\* C4, amended: the sanity rule applies to a contact some panel blocks.  Such
\* a contact is rejected (-1), only counted in skipped and never given a
\* shape exactly when its highest hit plus MODEL_REST_GAP exceeds the bound;
\* a contact with a clear path returns 0 and is never skipped, whatever its
\* height.  The skipped count is the number of rejected contacts.
C4_SanityRuleWhenBlocked ==
    Nudged =>
        /\ \A n \in 1..Len(contacts) :
              LET c == contacts[n] IN
              IF Blocking(c) # {} /\ ExceedsBound(ComputedBase(c), c[3])
              THEN BaseOf(c) = -100 /\ ~InLists(c) /\ ~HasShape(c)
              ELSE /\ BaseOf(c) = ComputedBase(c)
                   /\ n <= Routed => InLists(c)
        /\ skipped = Cardinality({n \in 1..Routed : BaseOf(contacts[n]) = -100})

\* After synthesis: a blocked contact above the bound was skipped and has no
\* shape, and a contact with a clear path whose height is under the bound
\* has shapes.
C4_Witness ==
    /\ pc = "built"
    /\ \E n \in 1..Len(contacts) :
          /\ Blocking(contacts[n]) # {}
          /\ ExceedsBound(ComputedBase(contacts[n]), contacts[n][3])
          /\ ~HasShape(contacts[n])
    /\ \E n \in 1..Len(contacts) :
          /\ Blocking(contacts[n]) = {}
          /\ ExceedsBound(0, contacts[n][3])
          /\ HasShape(contacts[n])
    /\ skipped > 0

\* C5: a contact is model-resting iff its base height is above 0.1 and
\* raft-based iff it is in [0, 0.1]; for every base height
\* _find_support_base returns, the routing into raft_contacts and
\* model_contacts agrees with the flag.
C5_RoutingAgreesWithFlag ==
    Nudged =>
        /\ \A n \in 1..Len(contacts) :
              LET b == BaseOf(contacts[n]) IN
              b >= 0 =>
                  /\ Route(b) = "model" <=> is_model_resting(b)
                  /\ Route(b) = "raft" <=> (0 <= b /\ b <= 10)
        /\ \A n \in 1..Routed :
              LET c == contacts[n] IN
              /\ c \in ModelSet <=> is_model_resting(BaseOf(c))
              /\ c \in RaftSet <=> (0 <= BaseOf(c) /\ BaseOf(c) <= 10)
        /\ \A k \in 1..Len(model_contacts) :
              is_model_resting(model_contacts[k][4])

\* The loop has routed one contact to the raft and one onto the model.
C5_Witness ==
    /\ pc = "collide" /\ cidx > Len(contacts)
    /\ \E n \in 1..Len(contacts) : contacts[n] \in RaftSet
    /\ \E n \in 1..Len(contacts) :
          /\ contacts[n] \in ModelSet
          /\ is_model_resting(BaseOf(contacts[n]))

\* Distance from a contact to the exterior edge of the face's bounding
\* rectangle on each axis; the exterior side is the centroid's side of the
\* model centre.
ExteriorClearX(f, c) ==
    IF CenterOfMass(f).x > center_x THEN f.XMax - c[1] ELSE c[1] - f.XMin
ExteriorClearY(f, c) ==
    IF CenterOfMass(f).y > center_y THEN f.YMax - c[2] ELSE c[2] - f.YMin


\* C10: every raw contact emitted for a face keeps at least COLUMN_RADIUS
\* between the contact and the face's bounding-rectangle edge on the
\* exterior side of each horizontal axis.
C10_ExteriorEdgeClearance ==
    \A i \in 1..(fidx - 1) :
        MainPassSelects(faces[i]) =>
            LET emitted == _collect_contacts(faces[i]) IN
            \A k \in 1..Len(emitted) :
                /\ \E r \in 1..Len(raw_contacts) : raw_contacts[r] = emitted[k]
                /\ ExteriorClearX(faces[i], emitted[k]) >= COLUMN_RADIUS
                /\ ExteriorClearY(faces[i], emitted[k]) >= COLUMN_RADIUS


InsideModel(c) ==
    /\ ModelBB.XMin <= c[1] /\ c[1] <= ModelBB.XMax
    /\ ModelBB.YMin <= c[2] /\ c[2] <= ModelBB.YMax

\* C11: after the clip, and after the inward nudge, the (x, y) of every
\* contact lies inside the model's XY bounding rectangle; the clip leaves a
\* point that is already inside unchanged.
C11_ContactsInsideModel ==
    /\ (pc = "nudge" \/ Nudged) =>
          \A i \in 1..Len(contacts) : InsideModel(contacts[i])
    /\ pc = "nudge" =>
          \A i \in 1..Len(contacts) :
              InsideModel(cells[i].val) => contacts[i] = cells[i].val

\* The clip moved a clustered contact that lay outside the rectangle, kept
\* one that lay inside, and both have been nudged.
C11_Witness ==
    /\ pc = "collide"
    /\ \E i \in 1..Len(cells) : ~InsideModel(cells[i].val)
    /\ \E i \in 1..Len(cells) :
          InsideModel(cells[i].val) /\ contacts[i] # cells[i].val

\* The contact the nudge loop read for cell i, and its squared distance
\* from the model centre.
BeforeNudge(i) == ClipContact(cells[i].val)
CentreDist2(c) ==
    (c[1] - center_x) * (c[1] - center_x) + (c[2] - center_y) * (c[2] - center_y)
Moved2(i) ==
    (contacts[i][1] - BeforeNudge(i)[1]) * (contacts[i][1] - BeforeNudge(i)[1])
    + (contacts[i][2] - BeforeNudge(i)[2]) * (contacts[i][2] - BeforeNudge(i)[2])

\* Displaced by INWARD_NUDGE (to within one unit of rounding) along the
\* line through the centre, toward the centre; z and normal unchanged.
NudgedTowardCentre(i) ==
    LET b == BeforeNudge(i)
        a == contacts[i]
        dx == b[1] - center_x
        dy == b[2] - center_y
        mx == a[1] - b[1]
        my == a[2] - b[2]
    IN  /\ (INWARD_NUDGE - 1) * (INWARD_NUDGE - 1) <= Moved2(i)
        /\ Moved2(i) <= (INWARD_NUDGE + 1) * (INWARD_NUDGE + 1)
        /\ mx * dx + my * dy < 0
        /\ (mx * dy - my * dx) * (mx * dy - my * dx) <= CentreDist2(b)
        /\ <<a[3], a[4], a[5], a[6]>> = <<b[3], b[4], b[5], b[6]>>

Qualifies(f) ==
    /\ f.ok
    /\ f.nz <= THRESH
    /\ f.area >= 50
    /\ f.minEdge >= MIN_OVERHANG_DEPTH

\* The faces the main pass has handled.
Processed == 1..(fidx - 1)
MinContactZ == MODEL_RAISE + 10
ZsOf(seq) == {seq[i][3] : i \in 1..Len(seq)}

\* C13: every raw contact has z = max(plane-equation height at (x, y),
\* MODEL_RAISE + 0.1) for the face it came from; clustering, clipping,
\* nudging and routing never change z, so every contact at every later
\* stage has z >= MODEL_RAISE + 0.1.
C13_HeightClamp ==
    /\ \A r \in 1..Len(raw_contacts) :
          \E i \in Processed :
              /\ <<raw_contacts[r][4], raw_contacts[r][5], raw_contacts[r][6]>>
                     = FaceNormal(faces[i])
              /\ raw_contacts[r][3] =
                     Max2(PlaneZUnclamped(faces[i], CenterOfMass(faces[i]),
                                          raw_contacts[r][1], raw_contacts[r][2]),
                          MinContactZ)
    /\ \A z \in ZsOf(raw_contacts) \cup ZsOf(contacts) \cup ZsOf(raft_contacts)
                \cup ZsOf(model_contacts) \cup {cells[j].val[3] : j \in 1..Len(cells)} :
          z >= MinContactZ
    /\ (pc = "nudge" \/ Nudged) =>
          \A j \in 1..Len(contacts) : contacts[j][3] = cells[j].val[3]
    /\ ZsOf(raft_contacts) \cup ZsOf(model_contacts) \subseteq ZsOf(contacts)
    /\ ZsOf(contacts) \subseteq ZsOf(raw_contacts)

\* A raw contact whose plane height lies below MODEL_RAISE + 0.1 was raised
\* to it, and it has been clustered, clipped, nudged and routed.
C13_Witness ==
    /\ pc = "built"
    /\ \E r \in 1..Len(raw_contacts) : \E i \in 1..Len(faces) :
          /\ Qualifies(faces[i])
          /\ PlaneZUnclamped(faces[i], CenterOfMass(faces[i]),
                             raw_contacts[r][1], raw_contacts[r][2]) < MinContactZ
          /\ raw_contacts[r][3] = MinContactZ
    /\ \E k \in 1..Len(raft_contacts) : raft_contacts[k][3] = MinContactZ
    /\ \E k \in 1..Len(raft_contacts) : raft_contacts[k][3] > MinContactZ

\* C14: a face contributes raw contacts only if its normal can be computed,
\* its nz is <= THRESH, its area is >= 0.5 and its shortest edge is >=
\* MIN_OVERHANG_DEPTH; a face failing one of these leaves raw_contacts as
\* it was, and the main pass moves on to the next face.
C14_SilentFilter ==
    [][(pc = "collect" /\ fidx <= Len(faces)) =>
          /\ fidx' = fidx + 1 /\ pc' = "collect"
          /\ ~Qualifies(faces[fidx]) => raw_contacts' = raw_contacts
          /\ Qualifies(faces[fidx]) =>
                raw_contacts' = raw_contacts \o _collect_contacts(faces[fidx])]_vars

\* A face that fails the filter was passed over and the face after it
\* contributed contacts.
C14_Witness ==
    /\ pc = "collect" /\ fidx = 3
    /\ ~Qualifies(faces[1])
    /\ Qualifies(faces[2])
    /\ raw_contacts # <<>>


(***************************************************************************)
(* The library functions of support_utils.py called on their own: one call *)
(* with arguments drawn from the sets below, and its return value.         *)
(***************************************************************************)
TaperedCalls ==
    {[fn |-> "build_tapered_support", cx |-> x, cy |-> y, cz |-> z,
      raft_top_z |-> r] :
        x \in {0, 1200}, y \in {65, 800},
        z \in {100, 150, 151, 310, 403, 2000}, r \in {0, 50}}

Call_build_tapered_support ==
    /\ call.fn = "build_tapered_support" /\ ret = [st |-> "pending"]
    /\ ret' = [st |-> "returned",
               val |-> build_tapered_support(<<call.cx, call.cy, call.cz>>,
                                             call.raft_top_z)]
    /\ UNCHANGED <<call, svars, gvars, sout, gout, doc>>

Returned(fn) == call.fn = fn /\ ret.st # "pending"

\* The parts of a support of one kind, and the top of the whole support.
PartsOf(shapes, part) == {k \in 1..Len(shapes) : shapes[k].part = part}
TopOf(shapes) == SetMax({shapes[k].z1 : k \in 1..Len(shapes)})

\* C15: for every contact (cx, cy, cz) and raft_top_z given to
\* build_tapered_support the column ends at cz - TIP_HEIGHT and the cone tip
\* ends exactly at height cz: the top of the support is the contact height.
C15_TipAtContact ==
    Returned("build_tapered_support") =>
        /\ \E k \in PartsOf(ret.val, "column") :
               ret.val[k].z1 = call.cz - TIP_HEIGHT
        /\ \A k \in PartsOf(ret.val, "cone") : ret.val[k].z1 = call.cz
        /\ TopOf(ret.val) = call.cz


Normals == {<<0, 0, 0>>, <<5, -31, -95>>, <<-31, 0, -95>>, <<0, 0, -100>>,
            <<80, 0, -60>>}

PadCalls ==
    {[fn |-> "raft_pad_position", cx |-> x, cy |-> y, cz |-> z, base_z |-> b,
      n |-> n] :
        x \in {400, 1200}, y \in {65, 800}, z \in {403, 2000},
        b \in {50, 930}, n \in Normals}

\* The pad position of the raft-sizing loop next to the shapes of
\* _angled_support for the same contact and normal.
Call_raft_pad_position ==
    /\ call.fn = "raft_pad_position" /\ ret = [st |-> "pending"]
    /\ ret' = [st |-> "returned",
               pad |-> RaftPadPosition(<<call.cx, call.cy, call.cz,
                                         call.n[1], call.n[2], call.n[3]>>),
               shapes |-> _angled_support(<<call.cx, call.cy, call.cz,
                              call.base_z, call.n[1], call.n[2], call.n[3]>>)]
    /\ UNCHANGED <<call, svars, gvars, sout, gout, doc>>

\* C16: the pad position used to size the raft equals the XY position at
\* which _angled_support places the column, the contact XY shifted by
\* (TIP_RADIUS - NECK_HEIGHT) times the unit normal's horizontal components
\* (to within one unit of rounding); for a zero-length normal both equal the
\* contact XY.
C16_PadUnderColumn ==
    Returned("raft_pad_position") =>
        LET standing == PartsOf(ret.shapes, "column") \cup PartsOf(ret.shapes, "neck")
            len == Isqrt(call.n[1] * call.n[1] + call.n[2] * call.n[2]
                         + call.n[3] * call.n[3])
        IN  /\ standing # {}
            /\ \A k \in standing :
                  <<ret.shapes[k].x, ret.shapes[k].y>> = <<ret.pad[1], ret.pad[2]>>
            /\ len > 0 =>
                  /\ Abs(ret.pad[1] - (call.cx + DivR((TIP_RADIUS - NECK_HEIGHT)
                                                      * call.n[1], len))) <= 1
                  /\ Abs(ret.pad[2] - (call.cy + DivR((TIP_RADIUS - NECK_HEIGHT)
                                                      * call.n[2], len))) <= 1
            /\ len = 0 => <<ret.pad[1], ret.pad[2]>> = <<call.cx, call.cy>>

\* A normal with a horizontal component: pad and column stand away from the
\* contact XY.
C16_Witness ==
    /\ Returned("raft_pad_position")
    /\ call.n[2] # 0
    /\ PartsOf(ret.shapes, "column") # {}
    /\ ret.pad[2] # call.cy

RaftBoxes ==
    {[XMin |-> 0, XMax |-> 2400, YMin |-> 0, YMax |-> 1600],
     [XMin |-> 1000, XMax |-> 1100, YMin |-> 700, YMax |-> 800]}
RaftPoints ==
    {[none |-> TRUE]} \cup
    {[none |-> FALSE, pts |-> p] :
        p \in {<<>>, <<<<1050, 750, 400>>>>, <<<<-200, 800, 400>>>>,
               <<<<2500, 1700, 2000>>, <<-50, -50, 310>>>>}}

RaftCalls ==
    {[fn |-> "build_raft", bb |-> bb, contact_points |-> cp, margin |-> m,
      thickness |-> RAFT_THICKNESS, chamfer |-> ch, chamfer_raises |-> cr] :
        bb \in RaftBoxes, cp \in RaftPoints, m \in {RAFT_MARGIN, 100, 0},
        ch \in {RAFT_CHAMFER, 0}, cr \in BOOLEAN}

Call_build_raft ==
    /\ call.fn = "build_raft" /\ ret = [st |-> "pending"]
    /\ ret' = [st |-> "returned",
               val |-> build_raft(call.bb, call.contact_points, call.margin,
                                  call.thickness, call.chamfer,
                                  call.chamfer_raises)]
    /\ UNCHANGED <<call, svars, gvars, sout, gout, doc>>

Covers(box, x0, x1, y0, y1) ==
    box.XMin <= x0 /\ x1 <= box.XMax /\ box.YMin <= y0 /\ y1 <= box.YMax

\* C17: the raft rectangle contains the model's XY bounding box expanded by
\* margin and, for every contact point, the square of half-side
\* BASE_PAD_RADIUS + margin around it; with no contact points it is exactly
\* the bounding box expanded by margin; the raft occupies z from -thickness
\* to 0.
C17_RaftCoverage ==
    Returned("build_raft") =>
        LET m == call.margin
            pts == IF call.contact_points.none THEN <<>>
                   ELSE call.contact_points.pts
            box == ret.val
        IN  /\ Covers(box, call.bb.XMin - m, call.bb.XMax + m,
                      call.bb.YMin - m, call.bb.YMax + m)
            /\ \A i \in 1..Len(pts) :
                  Covers(box, pts[i][1] - BASE_PAD_RADIUS - m,
                         pts[i][1] + BASE_PAD_RADIUS + m,
                         pts[i][2] - BASE_PAD_RADIUS - m,
                         pts[i][2] + BASE_PAD_RADIUS + m)
            /\ pts = <<>> =>
                  <<box.XMin, box.XMax, box.YMin, box.YMax>> =
                      <<call.bb.XMin - m, call.bb.XMax + m,
                        call.bb.YMin - m, call.bb.YMax + m>>
            /\ box.ZMin = -call.thickness /\ box.ZMax = 0

\* A raft stretched beyond the expanded footprint by pads outside it.
C17_Witness ==
    /\ Returned("build_raft")
    /\ ~call.contact_points.none /\ Len(call.contact_points.pts) = 2
    /\ ret.val.XMax > call.bb.XMax + call.margin
    /\ ret.val.YMin < call.bb.YMin - call.margin

FitCalls ==
    {[fn |-> "check_build_fit", size |-> <<x, y, z>>, printer |-> p,
      margin |-> m] :
        x \in {2400, 21400, 21800, 21801}, y \in {1600, 12300, 13000},
        z \in {3300, 26001}, p \in {"m7_pro", "m7_max", "mars"},
        m \in {0, 200}}

Call_check_build_fit ==
    /\ call.fn = "check_build_fit" /\ ret = [st |-> "pending"]
    /\ ret' = LET r == check_build_fit(call.size, call.printer, call.margin)
               IN  IF r.st = "ValueError" THEN [st |-> "ValueError"]
                   ELSE [st |-> "returned", val |-> r]
    /\ UNCHANGED <<call, svars, gvars, sout, gout, doc>>

\* C18: for a known printer the overflow on each axis is the bounding-box
\* length minus (build-volume length - 2 * margin) and fits is true iff the
\* overflow is <= 0 on all three axes; an unknown printer raises ValueError.
C18_BuildFit ==
    Returned("check_build_fit") =>
        IF call.printer \in {"m7_pro", "m7_max"}
        THEN LET vol == IF call.printer = "m7_pro" THEN <<21800, 12300, 26000>>
                        ELSE <<29800, 16400, 30000>>
             IN  /\ ret.st = "returned"
                 /\ \A i \in 1..3 :
                       ret.val.overflow[i] =
                           call.size[i] - (vol[i] - 2 * call.margin)
                 /\ ret.val.fits <=>
                       \A i \in 1..3 :
                           call.size[i] <= vol[i] - 2 * call.margin
        ELSE ret = [st |-> "ValueError"]

\* A print exactly as long as the available X length, which fits.
C18_Witness ==
    /\ Returned("check_build_fit")
    /\ ret.st = "returned"
    /\ ret.val.overflow[1] = 0
    /\ ret.val.fits

(***************************************************************************)
(* split_utils.py: registration pins and sockets on a split face.          *)
(* A face of a half is the record of what the code reads from it: whether  *)
(* its surface is a plane, whether normalAt answers, the dot product of    *)
(* its normal with the plane normal (x100), the offset of its centre of    *)
(* gravity from the split plane along the normal, and its vertices in the  *)
(* in-plane basis (u, v) of _plane_basis, relative to the centre of        *)
(* gravity.  A pin position is a pair of exact fractions <<num, den>> in   *)
(* that basis, since span / (count - 1) need not be a whole number.        *)
(***************************************************************************)
PIN_RADIUS == 60
PIN_HEIGHT == 150
PIN_DRAFT_ANGLE == 2
PIN_CLEARANCE == 12
PIN_SPACING == 1500
PIN_EDGE_MARGIN == 300
SPLIT_FACE_TOL == 10
SPLIT_FACE_DOT == 95

\* math.tan(math.radians(draft_deg)) in units of 1/10000, whole degrees.
TanE4(draft_deg) == <<0, 175, 349, 524, 699, 875>>[draft_deg + 1]

TipRadius(radius, height, draft_deg) ==
    Max2(10, radius - (height * TanE4(draft_deg)) \div 10000)

make_pin(center, direction, radius, height, draft_deg) ==
    [r1 |-> radius, r2 |-> TipRadius(radius, height, draft_deg),
     h |-> height, center |-> center, direction |-> direction]

\* A socket cut to the pin's own size.
PinSizedSocket(center, direction, radius, height, draft_deg, clearance) ==
    make_pin(center, direction, radius, height, draft_deg)

make_socket(center, direction, radius, height, draft_deg, clearance) ==
    LET sock_radius == radius + clearance
        tip_radius  == TipRadius(radius, height, draft_deg)
        sock_tip    == tip_radius + clearance
        sock_height == height + clearance
    IN  [r1 |-> sock_radius, r2 |-> sock_tip, h |-> sock_height,
         center |-> center, direction |-> direction]

NoFace == [none |-> TRUE]

\* The first planar face, wherever it lies.
RECURSIVE FirstPlanarFace(_, _, _)
FirstPlanarFace(fs, i, tol) ==
    IF i > Len(fs) THEN NoFace
    ELSE IF fs[i].planar THEN [none |-> FALSE, face |-> fs[i]]
    ELSE FirstPlanarFace(fs, i + 1, tol)

RECURSIVE _find_split_face(_, _, _)
_find_split_face(fs, i, tol) ==
    IF i > Len(fs) THEN NoFace
    ELSE LET face == fs[i]
         IN  IF ~face.planar THEN _find_split_face(fs, i + 1, tol)
             ELSE IF ~face.normalOk THEN _find_split_face(fs, i + 1, tol)
             ELSE IF Abs(face.dot) < SPLIT_FACE_DOT
                  THEN _find_split_face(fs, i + 1, tol)
             ELSE IF Abs(face.dist) < tol
                  THEN [none |-> FALSE, face |-> face]
             ELSE _find_split_face(fs, i + 1, tol)

RECURSIVE MinOf(_, _)
MinOf(s, k) ==
    IF Len(s) = 1 THEN s[1][k] ELSE Min2(s[1][k], MinOf(Tail(s), k))

RECURSIVE MaxOf(_, _)
MaxOf(s, k) ==
    IF Len(s) = 1 THEN s[1][k] ELSE Max2(s[1][k], MaxOf(Tail(s), k))

_pin_positions_on_face(face, spacing, margin) ==
    LET verts == face.verts
    IN  IF Len(verts) < 3 THEN <<>>
        ELSE
        LET u_min == MinOf(verts, 1)
            u_max == MaxOf(verts, 1)
            v_min == MinOf(verts, 2)
            v_max == MaxOf(verts, 2)
            u_span == u_max - u_min
            v_span == v_max - v_min
            along_u == u_span >= v_span
            long_min == IF along_u THEN u_min ELSE v_min
            long_max == IF along_u THEN u_max ELSE v_max
            short_min == IF along_u THEN v_min ELSE u_min
            short_max == IF along_u THEN v_max ELSE u_max
            long_span == long_max - long_min
            span == long_span - 2 * margin
        IN  IF span <= 0 THEN <<>>
            ELSE
            LET count == Max2(2, span \div spacing + 1)
                lv(i) == <<(long_min + margin) * (count - 1) + i * span,
                           count - 1>>
                short_center == <<short_min + short_max, 2>>
            IN  [k \in 1..count |->
                    IF along_u THEN [u |-> lv(k - 1), v |-> short_center]
                    ELSE [u |-> short_center, v |-> lv(k - 1)]]

add_registration_plane(neg_half, pos_half, plane_normal) ==
    LET n == plane_normal
        on_neg == _find_split_face(neg_half.faces, 1, SPLIT_FACE_TOL)
        split_face ==
            IF on_neg.none
            THEN _find_split_face(pos_half.faces, 1, SPLIT_FACE_TOL)
            ELSE on_neg
    IN  IF split_face.none THEN [neg |-> neg_half, pos |-> pos_half]
        ELSE
        LET positions == _pin_positions_on_face(split_face.face, PIN_SPACING,
                                                PIN_EDGE_MARGIN)
        IN  IF positions = <<>> THEN [neg |-> neg_half, pos |-> pos_half]
            ELSE
            LET pin_dir == n
                pin_shapes ==
                    [k \in 1..Len(positions) |->
                        make_pin(positions[k], pin_dir, PIN_RADIUS,
                                 PIN_HEIGHT, PIN_DRAFT_ANGLE)]
                socket_shapes ==
                    [k \in 1..Len(positions) |->
                        make_socket(positions[k], pin_dir, PIN_RADIUS,
                                    PIN_HEIGHT, PIN_DRAFT_ANGLE,
                                    PIN_CLEARANCE)]
            IN  [neg |-> [neg_half EXCEPT !.fused = @ \o pin_shapes],
                 pos |-> [pos_half EXCEPT !.cut = @ \o socket_shapes]]

SplitFace(planar, normalOk, dot, dist, verts) ==
    [planar |-> planar, normalOk |-> normalOk, dot |-> dot, dist |-> dist,
     verts |-> verts]

\* A w x h rectangle around its centre of gravity.
RectVerts(w, h) ==
    <<<<-(w \div 2), -(h \div 2)>>, <<w - w \div 2, -(h \div 2)>>,
      <<w - w \div 2, h - h \div 2>>, <<-(w \div 2), h - h \div 2>>>>

TriangleVerts == <<<<-1000, -300>>, <<2000, -300>>, <<-1000, 600>>>>

\* A half disc has two vertices, the ends of its straight edge; a disc has
\* the one vertex of its circle.
HalfDiscVerts == <<<<-1000, -424>>, <<1000, -424>>>>
DiscVerts == <<<<1000, 0>>>>

PinVerts ==
    {RectVerts(w, h) : w \in {400, 600, 1000, 2100, 3700, 5100},
                       h \in {400, 1000}}
    \cup {RectVerts(1000, 4000), RectVerts(3700, 3700), TriangleVerts,
          HalfDiscVerts, DiscVerts}

PinCalls ==
    {[fn |-> "_pin_positions_on_face",
      face |-> SplitFace(TRUE, TRUE, 100, 0, vs),
      spacing |-> s, margin |-> m] :
        vs \in PinVerts, s \in {PIN_SPACING, 500}, m \in {PIN_EDGE_MARGIN, 0}}

Call_pin_positions_on_face ==
    /\ call.fn = "_pin_positions_on_face" /\ ret = [st |-> "pending"]
    /\ ret' = [st |-> "returned",
               val |-> _pin_positions_on_face(call.face, call.spacing,
                                              call.margin)]
    /\ UNCHANGED <<call, svars, gvars, sout, gout, doc>>

HalfFaces ==
    {SplitFace(FALSE, TRUE, 100, 0, DiscVerts),
     SplitFace(TRUE, FALSE, 100, 0, RectVerts(3700, 1000)),
     SplitFace(TRUE, TRUE, 50, 0, RectVerts(3700, 1000)),
     SplitFace(TRUE, TRUE, -100, 500, RectVerts(3700, 1000)),
     SplitFace(TRUE, TRUE, -100, 0, RectVerts(3700, 1000)),
     SplitFace(TRUE, TRUE, 100, 5, RectVerts(1000, 5100)),
     SplitFace(TRUE, TRUE, 100, 0, RectVerts(400, 400))}

MaxHalfFaces == 2

Halves ==
    {[faces |-> fs, fused |-> <<>>, cut |-> <<>>] :
        fs \in UNION {[1..k -> HalfFaces] : k \in 0..MaxHalfFaces}}

\* The negative half has up to MaxHalfFaces faces, the positive half none
\* or one.
RegCalls ==
    {[fn |-> "add_registration_plane", neg_half |-> a, pos_half |-> b,
      plane_normal |-> n] :
        a \in Halves, b \in {h \in Halves : Len(h.faces) <= 1},
        n \in {<<0, 0, 100>>, <<100, 0, 0>>}}

Call_add_registration_plane ==
    /\ call.fn = "add_registration_plane" /\ ret = [st |-> "pending"]
    /\ ret' = [st |-> "returned",
               val |-> add_registration_plane(call.neg_half, call.pos_half,
                                              call.plane_normal)]
    /\ UNCHANGED <<call, svars, gvars, sout, gout, doc>>

\* C23: add_registration_plane makes one pin and one socket per pin position
\* on the split face, each pair with the same centre and the plane normal as
\* direction; as many pins are fused as sockets are cut; the socket's base
\* radius and tip radius are the pin's plus PIN_CLEARANCE and its depth is
\* the pin's height plus PIN_CLEARANCE.
C23_PinSocketPairs ==
    Returned("add_registration_plane") =>
        LET pins  == ret.val.neg.fused
            socks == ret.val.pos.cut
            on_neg == _find_split_face(call.neg_half.faces, 1, SPLIT_FACE_TOL)
            found == IF on_neg.none
                     THEN _find_split_face(call.pos_half.faces, 1,
                                           SPLIT_FACE_TOL)
                     ELSE on_neg
            positions == IF found.none THEN <<>>
                         ELSE _pin_positions_on_face(found.face, PIN_SPACING,
                                                     PIN_EDGE_MARGIN)
        IN  /\ Len(pins) = Len(positions)
            /\ Len(socks) = Len(pins)
            /\ \A k \in 1..Len(pins) :
                  /\ pins[k].center = positions[k]
                  /\ socks[k].center = pins[k].center
                  /\ pins[k].direction = call.plane_normal
                  /\ socks[k].direction = pins[k].direction
                  /\ socks[k].r1 = pins[k].r1 + PIN_CLEARANCE
                  /\ socks[k].r2 = pins[k].r2 + PIN_CLEARANCE
                  /\ socks[k].h = pins[k].h + PIN_CLEARANCE

\* Three pairs on a split face found on the positive half only.
C23_Witness ==
    /\ Returned("add_registration_plane")
    /\ _find_split_face(call.neg_half.faces, 1, SPLIT_FACE_TOL).none
    /\ Len(ret.val.neg.fused) = 3
    /\ Len(ret.val.pos.cut) = 3
    /\ ret.val.pos.cut[2].r2 = ret.val.neg.fused[2].r2 + PIN_CLEARANCE

IsSplitFace(face) ==
    /\ face.planar /\ face.normalOk
    /\ (face.dot >= 95 \/ face.dot <= -95)
    /\ face.dist > -10 /\ face.dist < 10

HasSplitFace(half) == \E k \in 1..Len(half.faces) : IsSplitFace(half.faces[k])

FirstSplitFace(half) ==
    half.faces[CHOOSE k \in 1..Len(half.faces) :
                  /\ IsSplitFace(half.faces[k])
                  /\ \A j \in 1..(k - 1) : ~IsSplitFace(half.faces[j])]

LocatedFace ==
    IF HasSplitFace(call.neg_half) THEN FirstSplitFace(call.neg_half)
    ELSE FirstSplitFace(call.pos_half)

\* The face has fewer than three vertices or its longer vertex extent is no
\* more than two margins.
NoRoom(face) ==
    \/ Len(face.verts) < 3
    \/ /\ MaxOf(face.verts, 1) - MinOf(face.verts, 1) <= 2 * PIN_EDGE_MARGIN
       /\ MaxOf(face.verts, 2) - MinOf(face.verts, 2) <= 2 * PIN_EDGE_MARGIN

\* C24: when neither half has a split face, or the located face yields no
\* pin positions, add_registration_plane returns exactly its two input
\* halves, unmodified, and raises nothing.
C24_RegistrationFallback ==
    (   /\ Returned("add_registration_plane")
        /\ \/ ~HasSplitFace(call.neg_half) /\ ~HasSplitFace(call.pos_half)
           \/ NoRoom(LocatedFace))
    => /\ ret.st = "returned"
       /\ ret.val.neg = call.neg_half
       /\ ret.val.pos = call.pos_half

\* Two halves with planar faces parallel to the plane, none of them on it.
C24_Witness ==
    /\ Returned("add_registration_plane")
    /\ ~HasSplitFace(call.neg_half) /\ ~HasSplitFace(call.pos_half)
    /\ \E k \in 1..Len(call.neg_half.faces) :
          call.neg_half.faces[k].planar /\ call.neg_half.faces[k].dist = 500
    /\ Len(call.pos_half.faces) = 1
    /\ ret.val = [neg |-> call.neg_half, pos |-> call.pos_half]

\* The located face is too small for pins: the halves come back as given.
C24_WitnessNoRoom ==
    /\ Returned("add_registration_plane")
    /\ HasSplitFace(call.pos_half) /\ ~HasSplitFace(call.neg_half)
    /\ NoRoom(LocatedFace)
    /\ ret.val = [neg |-> call.neg_half, pos |-> call.pos_half]

LongAlongU(verts) ==
    MaxOf(verts, 1) - MinOf(verts, 1) >= MaxOf(verts, 2) - MinOf(verts, 2)

LongMin(verts) ==
    IF LongAlongU(verts) THEN MinOf(verts, 1) ELSE MinOf(verts, 2)

LongMax(verts) ==
    IF LongAlongU(verts) THEN MaxOf(verts, 1) ELSE MaxOf(verts, 2)

ShortMin(verts) ==
    IF LongAlongU(verts) THEN MinOf(verts, 2) ELSE MinOf(verts, 1)

ShortMax(verts) ==
    IF LongAlongU(verts) THEN MaxOf(verts, 2) ELSE MaxOf(verts, 1)

LongOf(pos, verts) == IF LongAlongU(verts) THEN pos.u ELSE pos.v
ShortOf(pos, verts) == IF LongAlongU(verts) THEN pos.v ELSE pos.u

\* C25: with span = longer extent - 2 * margin, no pin is placed when
\* span <= 0; otherwise there are max(2, floor(span / spacing) + 1) pins, the
\* first exactly margin inside one end of the longer extent, the last exactly
\* margin inside the other, equally spaced, all at least margin from both
\* ends and all at the midpoint of the shorter extent.
C25_PinLayout ==
    Returned("_pin_positions_on_face") =>
        LET verts == call.face.verts
            lo == LongMin(verts) + call.margin
            hi == LongMax(verts) - call.margin
            span == hi - lo
            ps == ret.val
            n == Len(ps)
        IN  IF span <= 0 THEN ps = <<>>
            ELSE /\ n = Max2(2, span \div call.spacing + 1)
                 /\ LongOf(ps[1], verts)[1] = lo * LongOf(ps[1], verts)[2]
                 /\ LongOf(ps[n], verts)[1] = hi * LongOf(ps[n], verts)[2]
                 /\ \A k \in 1..n :
                       LET l == LongOf(ps[k], verts)
                           s == ShortOf(ps[k], verts)
                       IN  /\ l[2] = n - 1
                           /\ l[1] >= lo * l[2] /\ l[1] <= hi * l[2]
                           /\ s[1] * 2 =
                                 (ShortMin(verts) + ShortMax(verts)) * s[2]
                 /\ \A k \in 1..(n - 2) :
                       LongOf(ps[k + 1], verts)[1] - LongOf(ps[k], verts)[1]
                       = LongOf(ps[k + 2], verts)[1]
                         - LongOf(ps[k + 1], verts)[1]

(***************************************************************************)
(* _classify_single_face called on its own.                                *)
(***************************************************************************)
ClassifyBoxes ==
    {[XMin |-> b[1], XMax |-> b[2], YMin |-> b[3], YMax |-> b[4],
      ZMin |-> b[5], ZMax |-> b[6]] :
        b \in {<<0, 2000, 0, 930, 0, 2850>>, <<600, 1400, 0, 40, 1200, 2000>>,
               <<0, 2000, 0, 40, 0, 2850>>, <<0, 300, 0, 100, 1000, 1030>>}}

ClassifyCalls ==
    {[fn |-> "_classify_single_face", normal |-> n, bbox |-> bb,
      area |-> a,
      dims_sorted |-> Sorted3(XLength(bb), YLength(bb), ZLength(bb)),
      wall_outward_normal |-> won, window_bounds |-> wb] :
        n \in {<<0, -95, 31>>, <<0, 95, -31>>, <<0, 71, -70>>,
               <<0, -71, 70>>, <<0, -31, -95>>, <<0, 60, -80>>,
               <<100, 0, 0>>, <<0, 0, 0>>},
        bb \in ClassifyBoxes, a \in {90, 6300},
        won \in {<<0, -95, 31>>, <<0, 95, -31>>},
        wb \in {NoWindow, TheWindow}}

Call_classify_single_face ==
    /\ call.fn = "_classify_single_face" /\ ret = [st |-> "pending"]
    /\ ret' = [st |-> "returned",
               val |-> _classify_single_face(call.normal, call.bbox,
                           call.area, call.dims_sorted,
                           call.wall_outward_normal, call.window_bounds)]
    /\ UNCHANGED <<call, svars, gvars, sout, gout, doc>>

CallDotWall ==
    call.normal[1] * call.wall_outward_normal[1]
    + call.normal[2] * call.wall_outward_normal[2]
    + call.normal[3] * call.wall_outward_normal[3]

CallWallAligned == CallDotWall > 7000 \/ CallDotWall < -7000

\* C28: a face whose |dot(normal, wall_outward_normal)| exceeds
\* WALL_DOT_THRESHOLD is classified fragile, brick_side, display or interior
\* only: display iff it is not thin and the dot is positive, interior iff it
\* is not thin and the dot is negative; it is never an overhang of either
\* kind, however far downward its normal points.
C28_WallBeforeOverhang ==
    (Returned("_classify_single_face") /\ CallWallAligned) =>
        LET thin == call.dims_sorted[1] < FRAGILE_THRESHOLD
        IN  /\ ret.val \in {"fragile", "brick_side", "display", "interior"}
            /\ ret.val = "display" <=> (~thin /\ CallDotWall > 0)
            /\ ret.val = "interior" <=> (~thin /\ CallDotWall < 0)
            /\ ret.val \notin {"cosmetic_overhang", "structural_overhang"}

\* A wall-aligned face pointing well below the overhang threshold, large and
\* deep enough for a structural overhang, classified interior.
C28_Witness ==
    /\ Returned("_classify_single_face") /\ CallWallAligned
    /\ call.normal[3] < 2 * OVERHANG_DOT_THRESHOLD
    /\ call.area >= COSMETIC_AREA_MAX
    /\ call.dims_sorted[2] >= COSMETIC_DEPTH_MAX
    /\ ret.val = "interior"

(***************************************************************************)
(* The clustering loop of generate_building_print.py run on one collection *)
(* of raw contacts in two orders.                                          *)
(***************************************************************************)
MaxRaw == 3

\* Three contacts of the cell (0, 0), two of them sharing the lowest z, one
\* more above them, and one contact of another cell.
RawPool ==
    {<<100, 100, 1000, 0, -31, -95>>, <<150, 150, 800, 0, -31, -95>>,
     <<120, 120, 800, 0, 31, -95>>, <<120, 130, 1200, 0, 0, -100>>,
     <<2000, 2000, 1000, 0, -31, -95>>}

Reorderings(n) ==
    {p \in [1..n -> 1..n] : \A i, j \in 1..n : p[i] = p[j] => i = j}

RawLists ==
    UNION {{r \in [1..n -> RawPool] : \A i, j \in 1..n : r[i] = r[j] => i = j} :
              n \in 1..MaxRaw}

ClusterCalls ==
    UNION {{[fn |-> "cluster", raw |-> r,
             reordered |-> [i \in 1..Len(r) |-> r[p[i]]]] :
                p \in Reorderings(Len(r))} : r \in RawLists}

Call_cluster ==
    /\ call.fn = "cluster" /\ ret = [st |-> "pending"]
    /\ ret' = [st |-> "returned",
               val |-> [first  |-> ClusterFrom(call.raw, 1, <<>>),
                        second |-> ClusterFrom(call.reordered, 1, <<>>)]]
    /\ UNCHANGED <<call, svars, gvars, sout, gout, doc>>

Retained(cells_) == {cells_[i].val : i \in 1..Len(cells_)}
KeysOf(cells_) == {cells_[i].key : i \in 1..Len(cells_)}
HeldAt(cells_, key) == cells_[KeyIndex(cells_, key)].val
InCell(raw, key) == {i \in 1..Len(raw) : CellKey(raw[i]) = key}
LowestIn(raw, key) ==
    {i \in InCell(raw, key) : \A j \in InCell(raw, key) : raw[i][3] <= raw[j][3]}

\* C29 as stated: two orderings of the same raw contacts retain the same set
\* of contacts, with the same x, y, z and normal per cell, also when several
\* raw contacts of one cell share the minimum z.
C29_OrderIndependent ==
    Returned("cluster") =>
        Retained(ret.val.first) = Retained(ret.val.second)

\* C29, amended: two orderings of the same raw contacts retain one contact
\* for the same cells, with the same z per cell, the minimum of the cell;
\* each ordering retains the first of its contacts that has that z, so the
\* retained x, y and normal are the same in both when only one raw contact
\* of the cell has the minimum z, and can differ when several share it.
C29_SameCellsSameHeights ==
    Returned("cluster") =>
        LET a == ret.val.first
            b == ret.val.second
        IN  /\ KeysOf(a) = KeysOf(b)
            /\ KeysOf(a) = {CellKey(call.raw[i]) : i \in 1..Len(call.raw)}
            /\ Len(a) = Cardinality(KeysOf(a)) /\ Len(b) = Len(a)
            /\ \A key \in KeysOf(a) :
                  /\ HeldAt(a, key)[3] = HeldAt(b, key)[3]
                  /\ HeldAt(a, key) =
                         call.raw[SetMin(LowestIn(call.raw, key))]
                  /\ HeldAt(b, key) =
                         call.reordered[SetMin(LowestIn(call.reordered, key))]
                  /\ Cardinality(LowestIn(call.raw, key)) = 1 =>
                         HeldAt(a, key) = HeldAt(b, key)

\* Two contacts of one cell share its minimum z and come in opposite order in
\* the two orderings: the orderings retain different contacts of equal z.
C29_Witness ==
    /\ Returned("cluster")
    /\ \E key \in KeysOf(ret.val.first) :
          /\ Cardinality(LowestIn(call.raw, key)) = 2
          /\ Cardinality(InCell(call.raw, key)) = 3
          /\ HeldAt(ret.val.first, key) # HeldAt(ret.val.second, key)
          /\ HeldAt(ret.val.first, key)[3] = HeldAt(ret.val.second, key)[3]

UInit ==
    /\ call \in TaperedCalls \cup PadCalls \cup RaftCalls \cup FitCalls
                \cup PinCalls \cup RegCalls \cup ClassifyCalls
                \cup ClusterCalls
    /\ ret = [st |-> "pending"]
    /\ doc = {}
    /\ SIdle /\ GIdle

UNext ==
    \/ Call_build_tapered_support
    \/ Call_raft_pad_position
    \/ Call_build_raft
    \/ Call_check_build_fit
    \/ Call_pin_positions_on_face
    \/ Call_add_registration_plane
    \/ Call_classify_single_face
    \/ Call_cluster

SpecUtil == UInit /\ [][UNext]_vars

(***************************************************************************)
(* The build-fit check inside generate_building_print.py.                  *)
(***************************************************************************)
\* C19: the build-fit check never blocks and never mutates: the step of
\* check_build_fit changes no shape and no document object, and whether it
\* reports fits = TRUE or fits = FALSE the document update and the mesh
\* export are reached afterwards, with the final compound made of the
\* model, the clipped supports and the raft as they were before the check.
C19_FitCheckNeverBlocks ==
    /\ [][pc = "raft" =>
             UNCHANGED <<faces, panels, all_support_shapes, clipped_shapes,
                         raft, final, doc>>]_vars
    /\ \A b \in BOOLEAN :
           (fit.st = "ok" /\ fit.fits = b) ~>
               /\ mesh
               /\ "BuildingPrintSupported" \in doc
               /\ final.st = "compound"
               /\ final.model = ModelBox(panels)
               /\ final.supports = clipped_shapes
               /\ final.raft = raft.box

\* A print taller than the build volume, exported all the same.
C19_Witness ==
    /\ pc = "done" /\ mesh
    /\ fit.st = "ok" /\ ~fit.fits /\ fit.overflow[3] > 0
    /\ "BuildingPrintSupported" \in doc
    /\ final.supports = clipped_shapes /\ Len(clipped_shapes) > 0

(***************************************************************************)
(* Either program run on a document.                                       *)
(***************************************************************************)
EitherInit == Init \/ SInit

EitherNext == Next \/ SNext

SpecEither == EitherInit /\ [][EitherNext]_vars

\* C20: when the named model object is absent from the document,
\* run_support_pipeline (and generate_building_print.py for 'ThinBuilding')
\* raises ValueError as its first step, with no shape changed and no object
\* added to or removed from the document, and nothing runs after the error.
C20_MissingObjectIsFatal ==
    [][/\ (rpc = "raise" /\ object_name \notin doc) =>
              /\ rpc' = "ValueError"
              /\ UNCHANGED <<shape, doc, support_compound, raft_shape>>
       /\ (pc = "start" /\ "ThinBuilding" \notin doc) =>
              /\ pc' = "ValueError"
              /\ UNCHANGED <<faces, panels, doc, all_support_shapes,
                             clipped_shapes, raft, final, mesh>>
       /\ rpc # "ValueError" /\ pc # "ValueError"
       /\ (rpc' = "ValueError" => object_name \notin doc)
       /\ (pc' = "ValueError" => "ThinBuilding" \notin doc)]_vars

\* run_support_pipeline stopped on a document without the object.
C20_Witness ==
    /\ rpc = "ValueError"
    /\ object_name \notin doc /\ doc # {}
    /\ shape # <<>> /\ support_compound = <<>>

(***************************************************************************)
(* The clipping pass of generate_building_print.py.                        *)
(***************************************************************************)
\* The clipping pass has run.  No later stage assigns clipped_shapes,
\* clip_count, all_support_shapes or panels, so the state right after the
\* pass is the one every later stage sees.
Clipped == pc = "clipped"

\* Volume an output shape shares with a panel.
Shared(o, p) == VolMinus(Meet(SolidBox(o.shape), PanelBox(p)), o.cuts)

\* Volume left of an output shape were panel p and its slab cut from it.
LeftAfterCut(o, p) ==
    VolMinus(SolidBox(o.shape),
             o.cuts \o <<PanelBox(p), ExteriorSlab(p, center_x, center_y)>>)

\* C21 (as stated): after the clipping pass every output support shape
\* shares a volume below 0.001 with every panel.
C21_NoPenetration ==
    Clipped =>
        \A k \in 1..Len(clipped_shapes) : \A j \in 1..Len(panels) :
            Shared(clipped_shapes[k], panels[j]) < 1000

\* C21 (amended): after the clipping pass an output support shape shares a
\* volume of 0.001 or more with a panel only if the boolean operation on that
\* panel raises or cutting the panel and its slab would leave a volume of at
\* most 0.01 (the cut is then dropped and the shape keeps its prior state).
C21_NoPenetrationUnlessCutDropped ==
    Clipped =>
        \A k \in 1..Len(clipped_shapes) : \A j \in 1..Len(panels) :
            Shared(clipped_shapes[k], panels[j]) >= 1000 =>
                \/ panels[j].commonRaises
                \/ LeftAfterCut(clipped_shapes[k], panels[j]) <= 10000

\* A support that penetrated a panel and was cut clear of it.
C21_Witness ==
    /\ Clipped
    /\ \E k \in 1..Len(clipped_shapes) : \E j \in 1..Len(panels) :
           /\ clipped_shapes[k].cuts # <<>>
           /\ Vol(Meet(SolidBox(clipped_shapes[k].shape), PanelBox(panels[j])))
                  >= 1000
           /\ Shared(clipped_shapes[k], panels[j]) = 0

\* Volume of an output shape.
VolumeOf(o) == VolMinus(SolidBox(o.shape), o.cuts)

\* C22: the clipping pass emits one output shape per input support shape, in
\* the same order; what was cut from a shape is, panel by panel, the panel
\* and its exterior slab, never for a panel whose boolean operation raises,
\* and each cut was kept only with a volume > 0.01 left; so no output shape
\* has volume <= 0.01 unless its input did, and clip_count, the number of
\* shapes cut, never exceeds the number of support shapes.
C22_ClipGuard ==
    Clipped =>
        /\ Len(clipped_shapes) = Len(all_support_shapes)
        /\ \A k \in 1..Len(clipped_shapes) :
              LET o == clipped_shapes[k]
              IN  /\ o.shape = all_support_shapes[k]
                  /\ Len(o.cuts) % 2 = 0
                  /\ \A i \in 1..(Len(o.cuts) \div 2) :
                        /\ \E j \in 1..Len(panels) :
                              /\ ~panels[j].commonRaises
                              /\ o.cuts[2 * i - 1] = PanelBox(panels[j])
                              /\ o.cuts[2 * i] =
                                     ExteriorSlab(panels[j], center_x, center_y)
                        /\ VolMinus(SolidBox(o.shape),
                                    SubSeq(o.cuts, 1, 2 * i)) > 10000
                  /\ VolumeOf(o) <= 10000 => Vol(SolidBox(o.shape)) <= 10000
        /\ clip_count = Cardinality({k \in 1..Len(clipped_shapes) :
                                        clipped_shapes[k].cuts # <<>>})
        /\ clip_count <= Len(all_support_shapes)

\* One shape cut, and another left whole because the cut would have left
\* at most 0.01 of it.
C22_Witness ==
    /\ Clipped
    /\ clip_count > 0
    /\ \E k \in 1..Len(clipped_shapes) : \E j \in 1..Len(panels) :
           /\ clipped_shapes[k].cuts = <<>>
           /\ ~panels[j].commonRaises
           /\ Shared(clipped_shapes[k], panels[j]) >= 1000
           /\ LeftAfterCut(clipped_shapes[k], panels[j]) <= 10000

(***************************************************************************)
(* The input object's shape in the document.  In run_support_pipeline      *)
(* `shape` is obj.Shape of the named object: step 1 reads it, raises it    *)
(* and assigns the raised shape back to obj.Shape.  The script only ever   *)
(* copies ThinBuilding's shape (s1 = thin.Shape.copy()), and its faces and *)
(* panels are read from the oriented copy.                                 *)
(***************************************************************************)
\* C26: in both pipelines the shape of the input model object stored in the
\* document is after every stage what it was at the start, and the document
\* changes only in the named-object updates at the very end of the run.
C26_InputsUnmodified ==
    [][/\ shape' = shape
       /\ doc' # doc => \/ pc = "fit" /\ pc' = "doc"
                        \/ rpc \in {"build", "raft"}]_vars

\* The panels on which the kernel raises for contact c, and the panels that
\* block its column apart from them.
Failing(c) ==
    {i \in 1..Len(panels) :
        Raises(panels[i], c[1], c[2], c[3], COLUMN_RADIUS)}
Sound(p) == [p EXCEPT !.distRaises = FALSE, !.commonRaises = FALSE]
BlockingSound(c) ==
    {i \in 1..Len(panels) \ Failing(c) :
        /\ PanelExamined(Sound(panels[i]), c[1], c[2], c[3], COLUMN_RADIUS)
        /\ PanelCommon(panels[i], c[1], c[2], c[3], COLUMN_RADIUS).Volume
               > 1000}
BaseWithoutFailing(c) ==
    IF BlockingSound(c) = {} THEN 0
    ELSE LET b == SetMax({HitTop(c, i) : i \in BlockingSound(c)})
                  + MODEL_REST_GAP
         IN  IF ExceedsBound(b, c[3]) THEN -100 ELSE b

\* C27: a panel whose distance query or boolean intersection raises
\* contributes no blocked-at height; every other panel is still examined and
\* _find_support_base still returns a base, the one the remaining panels
\* give; and every contact the loop has reached, after a failure too, has
\* been checked and routed by that base.
C27_FailureIsolation ==
    (pc = "collide" \/ pc = "built") =>
        /\ Len(raft_contacts) + Len(model_contacts) + skipped = Routed
        /\ \A n \in 1..Routed :
              LET c == contacts[n]
                  b == BaseWithoutFailing(c)
              IN  /\ BaseOf(c) = b
                  /\ b < 0 => c \notin RaftSet \cup ModelSet
                  /\ (b >= 0 /\ b < 10) => c \in RaftSet
                  /\ b >= 10 =>
                        \E k \in 1..Len(model_contacts) :
                            model_contacts[k] =
                                <<c[1], c[2], c[3], b, c[4], c[5], c[6]>>

\* The kernel raised on a panel for a contact that another panel blocks: the
\* contact rests on the other panel, and the contact after it was routed.
C27_Witness ==
    /\ pc = "built"
    /\ \E n \in 1..(Len(contacts) - 1) :
          /\ Failing(contacts[n]) # {}
          /\ BlockingSound(contacts[n]) # {}
          /\ \E i \in Failing(contacts[n]) :
                \E j \in BlockingSound(contacts[n]) : j < i
          /\ \E k \in 1..Len(model_contacts) :
                /\ Pos3(model_contacts[k]) = Pos3(contacts[n])
                /\ model_contacts[k][4] = BaseWithoutFailing(contacts[n])
          /\ contacts[n + 1] \in RaftSet \cup ModelSet

\* The shapes built for model contact m, in the order they were built, and
\* the height of the neck base of m.
ShapesFor(m) ==
    SelectSeq(all_support_shapes,
              LAMBDA s : s.contact = <<m[1], m[2], m[3]>>)
NeckBaseZ(m) ==
    m[3] + AlongNormal(TIP_RADIUS, <<m[5], m[6], m[7]>>)[3]
         + AlongNormal(NECK_HEIGHT, <<m[5], m[6], m[7]>>)[3]

\* C30: for every contact routed to model_contacts (face normal with
\* nz <= THRESH, base accepted by the sanity rule) the neck base lies above
\* base_z, so _angled_support builds a column of strictly positive length
\* from base_z to the neck base, then a neck and a tip sphere, and no raft
\* base pad.
C30_ModelSupportSpansGap ==
    Built =>
        \A k \in 1..Len(model_contacts) :
            LET m == model_contacts[k]
                mine == ShapesFor(m)
            IN  /\ m[7] <= THRESH
                /\ NeckBaseZ(m) > m[4]
                /\ Len(mine) = 3
                /\ mine[1].part = "column"
                /\ mine[1].z0 = m[4] /\ mine[1].z1 = NeckBaseZ(m)
                /\ mine[1].z1 - mine[1].z0 > 0
                /\ mine[2].part = "neck" /\ mine[3].part = "sphere"
                /\ \A i \in 1..3 : mine[i].part # "pad"

\* A support resting on a panel whose top is as high as the sanity rule
\* allows within 1.5 mm: it has a short column, a neck and a sphere.
C30_Witness ==
    /\ pc = "built"
    /\ \E k \in 1..Len(model_contacts) :
          LET m == model_contacts[k]
          IN  /\ ~ExceedsBound(m[4], m[3])
              /\ ExceedsBound(m[4] + 150, m[3])
              /\ Len(ShapesFor(m)) = 3
              /\ ShapesFor(m)[1].part = "column"
              /\ ShapesFor(m)[1].z1 - ShapesFor(m)[1].z0 < 250

=============================================================================
